---------------------------- MODULE Spec2Model ----------------------------
(***************************************************************************)
(* Model of the LINE calendar bot: the conversation state machine          *)
(* (CalendarHandler.handleMessage), the plan commit (handleCreatePlan),    *)
(* the webhook boundary (LineHandler.handleSingleEvent) and the image      *)
(* background task (processImageInBackground).                             *)
(*                                                                         *)
(* Texts are sequences of tokens.  A user message is a sequence of         *)
(* characters, each written as a one-token string; the Chinese characters  *)
(* of the source are written in ASCII:                                     *)
(*   hao=U+597D ke=U+53EF yi=U+4EE5 mei=U+6C92 wen=U+554F ti=U+984C        *)
(*   shi=U+662F de=U+7684 tong=U+540C yi4=U+610F a=U+554A bu=U+4E0D        *)
(*   yong=U+7528 qu=U+53D6 xiao=U+6D88 yao=U+8981 dui=U+5C0D gai=U+6539    *)
(*   duan=U+77ED bang=U+5E6B zhu=U+52A9 shuo=U+8AAA ming=U+660E            *)
(*   zhuang=U+72C0 tai=U+614B                                              *)
(* A reply text is a sequence of tokens too: the empty text is <<>>, a     *)
(* text of blanks is a sequence of " " tokens.                             *)
(***************************************************************************)
EXTENDS Integers, Sequences, FiniteSets, TLC

VARIABLES
    stateCell,      \* Users!D of the user's row: the persisted state_json
    calendar,       \* the event store: set of [id, summary] of existing events
    nextEventId,    \* id the event store gives to the next created event
    objectives,     \* LearningObjectives sheet: sequence of rows
    notes,          \* KnowledgeNotes sheet: sequence of rows
    bgTasks,        \* number of dispatched background tasks still running
    last,           \* what the last handled webhook event did
    running,        \* the handlings in flight that are followed step by step
    users           \* Users sheet below its header: rows of [line_user_id,
                    \* state_json], followed where several users matter

vars == <<stateCell, calendar, nextEventId, objectives, notes, bgTasks, last,
          running, users>>

---------------------------------------------------------------------------
(* Bounds of the model *)

MaxPlanLen == 2
MaxEvents == 2
MaxObjectives == 1
MaxNotes == 1
MaxBgTasks == 1
MaxReplyFails == 1
MaxPushFails == 1
MaxCommitLen == 3
MaxListed == 3

---------------------------------------------------------------------------
(* Sequences and texts *)

Last(s) == s[Len(s)]


RECURSIVE Concat(_)
Concat(ss) == IF ss = <<>> THEN <<>> ELSE Head(ss) \o Concat(Tail(ss))

Range(s) == {s[i] : i \in 1..Len(s)}

SeqsUpTo(S, n) == UNION {[1..k -> S] : k \in 0..n}

IsWhitespace(c) == c = " "

RECURSIVE TrimLeft(_)
TrimLeft(s) ==
    IF s # <<>> /\ IsWhitespace(Head(s)) THEN TrimLeft(Tail(s)) ELSE s

RECURSIVE TrimRight(_)
TrimRight(s) ==
    IF s # <<>> /\ IsWhitespace(s[Len(s)])
    THEN TrimRight(SubSeq(s, 1, Len(s) - 1))
    ELSE s

\* String.prototype.trim
Trim(s) == TrimRight(TrimLeft(s))

LowerChar(c) ==
    CASE c = "O" -> "o"
      [] c = "K" -> "k"
      [] OTHER -> c

\* String.prototype.toLowerCase
ToLowerCase(s) == [i \in 1..Len(s) |-> LowerChar(s[i])]

\* String.prototype.includes(part)
Includes(s, part) ==
    \E i \in 0..(Len(s) - Len(part)) : SubSeq(s, i + 1, i + Len(part)) = part

\* `!text || text.trim() === ''`
IsBlankText(t) == Trim(t) = <<>>

---------------------------------------------------------------------------
(* Messages the user may send *)

pureConfirmTerms ==
    << <<"hao">>, <<"ke", "yi">>, <<"o", "k">>, <<"mei", "wen", "ti">>,
       <<"shi", "de">>, <<"tong", "yi4">>, <<"hao", "a">>, <<"ke", "yi", "a">> >>

negativeResponses ==
    << <<"bu", "yong">>, <<"qu", "xiao">>, <<"bu", "yao">>, <<"bu", "dui">> >>

Messages ==
    { <<"hao">>, <<" ", "tong", "yi4", " ">>, <<"o", "k">>, <<"O", "K">>,
      <<"qu", "xiao">>, <<"hao", ",", "bu", "yao">>, <<"gai", "duan">>,
      <<"/", "h", "e", "l", "p">>, <<"zhuang", "tai">>,
      <<"bang", "zhu">>, <<"shuo", "ming">>,
      <<" ", "/", "s", "t", "a", "t", "u", "s">> }


---------------------------------------------------------------------------
(* Data: plans, persisted states, oracle outputs *)

Titles == {"T1", "T2"}

\* PlanEvent.  date = 0 / startTime = 0 / objectiveId = 0: the field is absent;
\* summary = "": no summary.
PlanEvent(s, d, t, o) ==
    [summary |-> s, date |-> d, startTime |-> t, objectiveId |-> o]

\* The plans a text oracle proposes: steps with a summary (and a duration)
\* and no date; the empty plan, a one-step plan, ..., summaries alternating.
TextStep(i) == PlanEvent(IF i % 2 = 1 THEN "A" ELSE "B", 0, 0, 0)

TextPlans == {[i \in 1..n |-> TextStep(i)] : n \in 0..MaxPlanLen}

\* The in-memory conversation state (userState).  hasPlan = FALSE: the plan
\* field is undefined, which JSON.stringify drops.  partialPlan of
\* waiting_plan_correction is an intent: its plan is kept in `plan'.
State(status, hasPlan, plan, events, noteId) ==
    [status |-> status, hasPlan |-> hasPlan, plan |-> plan,
     events |-> events, noteId |-> noteId]

Null == State("null", FALSE, <<>>, <<>>, 0)

WaitingConfirmation(hasPlan, plan) ==
    State("waiting_confirmation", hasPlan, plan, <<>>, 0)

WaitingDeleteConfirmation(events) ==
    State("waiting_delete_confirmation", FALSE, <<>>, events, 0)

WaitingPlanCorrection(hasPlan, plan) ==
    State("waiting_plan_correction", hasPlan, plan, <<>>, 0)

WaitingKnowledgeAction(noteId) ==
    State("waiting_knowledge_action", FALSE, <<>>, <<>>, noteId)

KnownStatuses ==
    {"waiting_confirmation", "waiting_delete_confirmation",
     "waiting_plan_correction", "waiting_knowledge_action"}

\* The cell text setUserState writes: '' for null, JSON.stringify otherwise.
\* A cell is either the text of a state or "garbage": text JSON.parse rejects.
EmptyCell == [json |-> TRUE, value |-> Null]
GarbageCell == [json |-> FALSE, value |-> Null]

Stringify(state) == [json |-> TRUE, value |-> state]

\* `user.state_json ? JSON.parse(user.state_json) : null`
\* -> [threw, value]
ParseStateJson(cell) ==
    IF cell = EmptyCell THEN [threw |-> FALSE, value |-> Null]
    ELSE IF ~cell.json THEN [threw |-> TRUE, value |-> Null]
    ELSE [threw |-> FALSE, value |-> cell.value]

\* A JSON value the oracle's raw output parses to, read as the code reads it.
\* action = "": no action field; hasParams = FALSE: no params object;
\* response = <<>>: no (or an empty) response text; isArray: the value is an
\* array, held in plan; hasPlan = FALSE: no plan field; selection: "all",
\* "none", "list" (the indices are in indices) or "" (anything else);
\* text: the plain text processKnowledge asks for; malformed: the output is
\* no JSON at all, or the call to the model failed.
Intent(action) ==
    [action |-> action, malformed |-> FALSE, isArray |-> FALSE,
     hasPlan |-> FALSE, plan |-> <<>>, objectiveTitle |-> "",
     hasParams |-> FALSE, response |-> <<>>, query |-> "", title |-> "",
     summary |-> "", startTime |-> 0, endTime |-> 0, error |-> FALSE,
     selection |-> "", indices |-> <<>>, text |-> <<>>]

Malformed == [Intent("") EXCEPT !.malformed = TRUE]

\* No oracle call is made at this position of the handling.
NoOutput == Intent("-")

WithPlan(i, plan) == [i EXCEPT !.hasPlan = TRUE, !.plan = plan]

WithParams(i) == [i EXCEPT !.hasParams = TRUE]

OracleTexts == { <<>>, <<" ">>, <<"oracle_text">> }

---------------------------------------------------------------------------
(* IntelligentPlanner: each operation parses the model's raw output and    *)
(* recovers from a failure in its own catch block                          *)

understandAndPlan(raw) ==
    IF raw.malformed
    THEN [WithParams(Intent("clarify_or_reject")) EXCEPT
              !.response = <<"sorry_brain_short_circuit">>]
    ELSE raw

generatePlanForObjective(raw) ==
    IF raw.malformed
    THEN WithPlan(Intent("plan_complex_task"), <<>>)
    ELSE raw

\* A variant of parseDeletionChoice whose catch block selects everything.
parseDeletionChoiceAll(raw) ==
    IF raw.malformed
    THEN [Intent("") EXCEPT !.selection = "all"]
    ELSE raw

\* parseDeletionChoice: the catch block answers { selection: 'none' }
parseDeletionChoice(raw) ==
    IF raw.malformed
    THEN [Intent("") EXCEPT !.selection = "none"]
    ELSE raw

modifyPlan(raw) ==
    IF raw.malformed
    THEN [WithParams(Intent("clarify_or_reject")) EXCEPT
              !.response = <<"sorry_cannot_modify">>]
    ELSE IF raw.isArray
    THEN WithPlan(Intent("plan_complex_task"), raw.plan)
    ELSE IF raw.action = ""
    THEN [raw EXCEPT !.action = "plan_complex_task"]
    ELSE raw

processKnowledge(raw) ==
    IF raw.malformed THEN <<"sorry_knowledge_failed">> ELSE raw.text

\* partialPlan is the intent stored in the state: its plan.
mergePlanWithCorrection(hasPlan, partialPlan, raw) ==
    IF raw.malformed
    THEN [Intent("plan_complex_task") EXCEPT
              !.hasPlan = hasPlan, !.plan = partialPlan, !.error = TRUE]
    ELSE raw

---------------------------------------------------------------------------
(* What one handling does.  A handling is a pure function of the persisted *)
(* data it reads and of its inputs: the message, the oracle's raw outputs, *)
(* the fault (the ordinal of the store call that throws, 0: none), the     *)
(* set of plan steps whose creation the event store rejects, and the       *)
(* events a search finds.  Its result records the calls it issued.         *)

\* threw: an exception left the function; reply: the returned text;
\* writes: the states given to setUserState, in order; gcal: the event-store
\* calls; sheet: the objective and note writes; oracle: the oracle calls with
\* their raw outputs; calls: the number of store calls that can throw made
\* so far; clock: the day the handling read from the clock (0: it did not).
R0 ==
    [threw |-> FALSE, reply |-> <<>>, writes |-> <<>>, gcal |-> <<>>,
     sheet |-> <<>>, oracle |-> <<>>, calls |-> 0, clock |-> 0]

\* day: the day of the start given to a created plan step (0 otherwise).
GcalCall(op, id, summary, ok) ==
    [op |-> op, id |-> id, summary |-> summary, ok |-> ok, day |-> 0]

SheetCall(op, id, ref, title) ==
    [op |-> op, id |-> id, ref |-> ref, title |-> title]

Throw(r) == [r EXCEPT !.threw = TRUE]

Return(r, text) == [r EXCEPT !.reply = text]

Ask(r, op, raw) == [r EXCEPT !.oracle = Append(@, [op |-> op, out |-> raw])]

\* The next store call is the one that throws.
Fails(r, fault) == r.calls + 1 = fault

\* A variant of setUserState that updates the cell twice.
setUserStateTwice(r, state, fault) ==
    IF Fails(r, fault)
    THEN Throw([r EXCEPT !.calls = @ + 1])
    ELSE [r EXCEPT !.calls = @ + 1, !.writes = Append(Append(@, state), state)]

\* GoogleSheetService.setUserState: one cell update, which may throw.
setUserState(r, state, fault) ==
    IF Fails(r, fault)
    THEN Throw([r EXCEPT !.calls = @ + 1])
    ELSE [r EXCEPT !.calls = @ + 1, !.writes = Append(@, state)]

\* A sheet read, which may throw.
SheetRead(r, fault) ==
    IF Fails(r, fault)
    THEN Throw([r EXCEPT !.calls = @ + 1])
    ELSE [r EXCEPT !.calls = @ + 1]

\* The user's id in the Users sheet.
UserId == 1

ObjectiveRow(id, userId, title, eventIds) ==
    [objective_id |-> id, user_id |-> userId, title |-> title,
     gcal_event_ids |-> eventIds]

NoObjective == ObjectiveRow(0, 0, "", <<>>)

\* A variant of findObjectiveByTitle that takes the user's first objective
\* whatever its title.
findObjectiveAnyTitle(rows, userId, title) ==
    LET hits == {i \in 1..Len(rows) : rows[i].user_id = userId}
    IN IF hits = {} THEN NoObjective
       ELSE rows[CHOOSE i \in hits : \A j \in hits : i <= j]

\* GoogleSheetService.findObjectiveByTitle: the first row of the user with
\* exactly this title, or null.
findObjectiveByTitle(rows, userId, title) ==
    LET hits == {i \in 1..Len(rows) :
                    rows[i].user_id = userId /\ rows[i].title = title}
    IN IF hits = {} THEN NoObjective
       ELSE rows[CHOOSE i \in hits : \A j \in hits : i <= j]

NoteRow(id, userId, objectiveId) ==
    [note_id |-> id, user_id |-> userId, objective_id |-> objectiveId]

\* GoogleSheetService.getKnowledgeNoteById: is there a row with this id.
getKnowledgeNoteById(rows, noteId) ==
    \E i \in 1..Len(rows) : rows[i].note_id = noteId

\* formatPlanForConfirmation: a greeting, one block per step numbered from
\* 1, the question.  Called on a plan that is an array.
formatPlanForConfirmation(plan, showGreeting) ==
    (IF showGreeting THEN <<"plan_draft">> ELSE <<>>)
    \o Concat([i \in 1..Len(plan) |->
                  <<"stage", ToString(i), plan[i].summary>>
                  \o (IF plan[i].date # 0 THEN <<"date">> ELSE <<>>)
                  \o (IF plan[i].startTime # 0 THEN <<"time">> ELSE <<>>)])
    \o <<"reply_hao_to_confirm">>

GenericFailure == <<"sorry_error_try_later">>

---------------------------------------------------------------------------
(* CalendarHandler.handleCreatePlan *)

CreatedCount(r) ==
    Cardinality({k \in 1..Len(r.gcal) : r.gcal[k].op = "create" /\ r.gcal[k].ok})

\* Days are numbered; a date is the number of its day.  Date.getDay of a
\* day: 0 is Sunday, 6 is Saturday.
getDay(d) == d % 7

\* The days of one week: the day a handling may happen on.
Today == 1..7

Friday == 5

\* A date or startTime text that `new Date' cannot read: an Invalid Date.
InvalidDate == -1

\* A variant of SkipWeekend that passes Sundays only.
RECURSIVE SkipSunday(_)
SkipSunday(d) == IF getDay(d) = 0 THEN SkipSunday(d + 1) ELSE d

\* while (getDay() === 0 || getDay() === 6) setDate(getDate() + 1)
RECURSIVE SkipWeekend(_)
SkipWeekend(d) == IF getDay(d) \in {0, 6} THEN SkipWeekend(d + 1) ELSE d

\* The start of a plan step: its own date, else its own startTime, else the
\* first day from the cursor on that is no weekend day.
EventStart(item, nextAvailableDate) ==
    IF item.date # 0 THEN item.date
    ELSE IF item.startTime # 0 THEN item.startTime
    ELSE SkipWeekend(nextAvailableDate)

\* A variant of CursorAfter that moves the cursor after every step, as
\* createMultipleEvents does.
CursorAfterEveryStep(item, nextAvailableDate) ==
    IF item.date = 0 /\ item.startTime = 0
    THEN SkipWeekend(nextAvailableDate) + 1
    ELSE nextAvailableDate + 1

\* The cursor after a plan step: the day after the start of a step that has
\* no date of its own, unchanged otherwise.
CursorAfter(item, nextAvailableDate) ==
    IF item.date = 0 /\ item.startTime = 0
    THEN SkipWeekend(nextAvailableDate) + 1
    ELSE nextAvailableDate

\* The loop over the plan.  toISOString of an Invalid Date throws, outside
\* the try of the step: the commit ends there.  Otherwise step i is created
\* unless the event store rejects it, and a created step that carries an
\* objectiveId is linked to that objective; a failure of either call is
\* caught per step and the loop goes on.
RECURSIVE CreateLoop(_, _, _, _, _, _, _)
CreateLoop(r, plan, i, rejects, nextId, nextAvailableDate, fault) ==
    IF i > Len(plan) THEN r
    ELSE LET item == plan[i]
             eventStart == EventStart(item, nextAvailableDate)
             ok == i \notin rejects
             r1 == [r EXCEPT
                      !.gcal = Append(@, [GcalCall("create",
                                   IF ok THEN nextId ELSE 0, item.summary, ok)
                                   EXCEPT !.day = eventStart])]
             r2 == IF ~(ok /\ item.objectiveId # 0) THEN r1
                   ELSE IF Fails(r1, fault) THEN [r1 EXCEPT !.calls = @ + 1]
                   ELSE [r1 EXCEPT !.calls = @ + 1,
                            !.sheet = Append(@, SheetCall("linkEvent",
                                          item.objectiveId, nextId, ""))]
         IN IF eventStart = InvalidDate THEN Throw(r)
            ELSE CreateLoop(r2, plan, i + 1, rejects,
                            IF ok THEN nextId + 1 ELSE nextId,
                            CursorAfter(item, nextAvailableDate), fault)

\* The cursor starts tomorrow.  `for (const item of plan)' throws when the
\* stored state has no plan.
handleCreatePlan(r, hasPlan, plan, rejects, nextId, today, fault) ==
    IF ~hasPlan THEN Throw([r EXCEPT !.clock = today])
    ELSE LET r1 == CreateLoop([r EXCEPT !.clock = today], plan, 1, rejects,
                              nextId, today + 1, fault)
         IN IF r1.threw THEN r1
            ELSE Return(r1, IF CreatedCount(r1) > 0
                            THEN <<"created", ToString(CreatedCount(r1))>>
                            ELSE <<"nothing_created">>)

---------------------------------------------------------------------------
(* CalendarHandler.handleMessage: the waiting states *)

\* A variant of isPureConfirmation with the length limit set to 2.
isPureConfirmationShort(messageTrimmed) ==
    /\ messageTrimmed \in Range(pureConfirmTerms)
    /\ Len(messageTrimmed) < 2

\* pureConfirmTerms.includes(messageTrimmed) && messageTrimmed.length < 5
isPureConfirmation(messageTrimmed) ==
    /\ messageTrimmed \in Range(pureConfirmTerms)
    /\ Len(messageTrimmed) < 5

\* A variant of isNegativeResponse that asks for equality with a token.
isNegativeResponseExact(messageTrimmed) ==
    ToLowerCase(messageTrimmed) \in Range(negativeResponses)

\* negativeResponses.some(resp => messageTrimmed.toLowerCase().includes(resp))
isNegativeResponse(messageTrimmed) ==
    \E k \in 1..Len(negativeResponses) :
        Includes(ToLowerCase(messageTrimmed), negativeResponses[k])

\* case 'waiting_confirmation', the branch for a modification request
ModifyBranch(r, inp) ==
    LET modifiedIntent == modifyPlan(inp.o1)
        r1 == Ask(r, "modifyPlan", inp.o1)
    IN IF modifiedIntent.action = "plan_complex_task"
       THEN LET r2 == setUserState(r1,
                         WaitingConfirmation(modifiedIntent.hasPlan,
                                             modifiedIntent.plan), inp.fault)
            IN IF r2.threw THEN r2
               ELSE IF ~modifiedIntent.hasPlan THEN Throw(r2)
               ELSE Return(r2, <<"adjusted_plan">>
                       \o formatPlanForConfirmation(modifiedIntent.plan, FALSE))
       ELSE LET r2 == setUserState(r1, Null, inp.fault)
            IN IF r2.threw THEN r2
               ELSE Return(r2,
                      IF modifiedIntent.hasParams /\ modifiedIntent.response # <<>>
                      THEN modifiedIntent.response
                      ELSE <<"sorry_cannot_understand_change">>)

\* case 'waiting_confirmation'
WaitingConfirmationBranch(r, userState, env, inp) ==
    LET messageTrimmed == Trim(inp.msg)
    IN IF isPureConfirmation(messageTrimmed)
       THEN LET r1 == setUserState(r, Null, inp.fault)
            IN IF r1.threw THEN r1
               ELSE handleCreatePlan(r1, userState.hasPlan, userState.plan,
                                     inp.rejects, env.nextEventId, inp.today,
                                     inp.fault)
       ELSE IF isNegativeResponse(messageTrimmed)
       THEN LET r1 == setUserState(r, Null, inp.fault)
            IN IF r1.threw THEN r1 ELSE Return(r1, <<"cancelled">>)
       ELSE ModifyBranch(r, inp)

\* GoogleCalendarService.deleteEventById on each target in turn: a delete
\* throws when the call fails or the event no longer exists, which ends the
\* loop and the handling.
RECURSIVE DeleteLoop(_, _, _, _)
DeleteLoop(r, targets, cal, fault) ==
    IF targets = <<>> THEN r
    ELSE LET e == Head(targets)
             ok == ~Fails(r, fault) /\ e.id \in cal
             r1 == [r EXCEPT !.calls = @ + 1,
                             !.gcal = Append(@, GcalCall("delete", e.id,
                                                         e.summary, ok))]
         IN IF ok THEN DeleteLoop(r1, Tail(targets), cal \ {e.id}, fault)
            ELSE Throw(r1)

\* A variant of PickByIndex that counts positions from 1.
RECURSIVE PickByIndexFromOne(_, _)
PickByIndexFromOne(events, indices) ==
    IF indices = <<>> THEN <<>>
    ELSE (IF Head(indices) \in 1..Len(events)
          THEN <<events[Head(indices)]>> ELSE <<>>)
         \o PickByIndexFromOne(events, Tail(indices))

\* eventsToDelete[index] for each index of the selection, where it exists
RECURSIVE PickByIndex(_, _)
PickByIndex(events, indices) ==
    IF indices = <<>> THEN <<>>
    ELSE (IF Head(indices) + 1 \in 1..Len(events)
          THEN <<events[Head(indices) + 1]>> ELSE <<>>)
         \o PickByIndex(events, Tail(indices))

\* The candidates the selection names.
DeletionTargets(events, choice) ==
    IF choice.selection = "all" THEN events
    ELSE IF choice.selection = "list" THEN PickByIndex(events, choice.indices)
    ELSE <<>>

IsDeleted(c) == c.op = "delete" /\ c.ok

\* deletedSummaries: the summaries of the events deleted so far, in order
DeletedSummaries(r) ==
    LET done == SelectSeq(r.gcal, IsDeleted)
    IN [n \in 1..Len(done) |-> done[n].summary]

\* case 'waiting_delete_confirmation'
WaitingDeleteBranch(r, userState, env, inp) ==
    LET eventsToDelete == userState.events
        choiceResult == parseDeletionChoice(inp.o1)
        r1 == Ask(r, "parseDeletionChoice", inp.o1)
        r2 == DeleteLoop(r1, DeletionTargets(eventsToDelete, choiceResult),
                         {e.id : e \in env.calendar}, inp.fault)
    IN IF r2.threw THEN r2
       ELSE LET r3 == setUserState(r2, Null, inp.fault)
            IN IF r3.threw THEN r3
               ELSE IF Len(DeletedSummaries(r3)) > 0
               THEN Return(r3,
                       <<"deleted", ToString(Len(DeletedSummaries(r3)))>>
                       \o DeletedSummaries(r3))
               ELSE Return(r3, <<"delete_cancelled">>)

\* case 'waiting_plan_correction'
WaitingPlanCorrectionBranch(r, userState, env, inp) ==
    LET completeIntent == mergePlanWithCorrection(userState.hasPlan,
                                                  userState.plan, inp.o1)
        r1 == Ask(r, "mergePlanWithCorrection", inp.o1)
    IN IF completeIntent.error
       THEN LET r2 == setUserState(r1, Null, inp.fault)
            IN IF r2.threw THEN r2 ELSE Return(r2, <<"sorry_merge_failed">>)
       ELSE LET r2 == setUserState(r1,
                         WaitingConfirmation(completeIntent.hasPlan,
                                             completeIntent.plan), inp.fault)
            IN IF r2.threw THEN r2
               ELSE IF ~completeIntent.hasPlan THEN Throw(r2)
               ELSE Return(r2, <<"updated_plan">>
                       \o formatPlanForConfirmation(completeIntent.plan, FALSE))

\* case 'waiting_knowledge_action'
WaitingKnowledgeBranch(r, userState, env, inp) ==
    LET noteId == userState.noteId
    IN IF noteId = 0
       THEN LET r1 == setUserState(r, Null, inp.fault)
            IN IF r1.threw THEN r1 ELSE Return(r1, <<"forgot_which_note">>)
       ELSE
       LET intent == understandAndPlan(inp.o1)
           r1 == Ask(r, "understandAndPlan", inp.o1)
       IN IF /\ intent.action = "link_note_to_objective"
             /\ intent.hasParams
             /\ intent.objectiveTitle # ""
          THEN LET r2 == SheetRead(r1, inp.fault)
                   objective == findObjectiveByTitle(env.objectives, UserId,
                                                     intent.objectiveTitle)
               IN IF r2.threw THEN r2
                  ELSE IF objective = NoObjective
                  THEN Return(r2, <<"objective_not_found", intent.objectiveTitle>>)
                  ELSE
                  LET r3 == IF Fails(r2, inp.fault)
                            THEN Throw([r2 EXCEPT !.calls = @ + 1])
                            ELSE [r2 EXCEPT !.calls = @ + 1,
                                    !.sheet = Append(@, SheetCall("linkNote",
                                        noteId, objective.objective_id, ""))]
                  IN IF r3.threw THEN r3
                     ELSE LET r4 == setUserState(r3, Null, inp.fault)
                          IN IF r4.threw THEN r4
                             ELSE Return(r4, <<"archived", objective.title>>)
          ELSE LET r2 == SheetRead(r1, inp.fault)
               IN IF r2.threw THEN r2
                  ELSE IF ~getKnowledgeNoteById(env.notes, noteId)
                  THEN LET r3 == setUserState(r2, Null, inp.fault)
                       IN IF r3.threw THEN r3
                          ELSE Return(r3, <<"sorry_note_unreadable">>)
                  ELSE LET finalResult == processKnowledge(inp.o2)
                           r3 == Ask(r2, "processKnowledge", inp.o2)
                           r4 == setUserState(r3, Null, inp.fault)
                       IN IF r4.threw THEN r4 ELSE Return(r4, finalResult)

---------------------------------------------------------------------------
(* CalendarHandler.handleMessage: a fresh request *)

\* The events of the store whose id is in hits, in the store's order.
RECURSIVE EventsById(_, _)
EventsById(cal, hits) ==
    LET es == {e \in cal : e.id \in hits}
    IN IF es = {} THEN <<>>
       ELSE LET first == CHOOSE e \in es : \A f \in es : e.id <= f.id
            IN <<first>> \o EventsById(cal \ {first}, hits)

EventSummaries(events) == [n \in 1..Len(events) |-> events[n].summary]

\* plan.forEach(item => item.objectiveId = objective.objective_id)
InjectObjective(plan, objectiveId) ==
    [i \in 1..Len(plan) |-> [plan[i] EXCEPT !.objectiveId = objectiveId]]

\* The end of the three plan branches: write waiting_confirmation, then
\* render the plan, which throws when there is no plan array.
ProposePlan(r, hasPlan, plan, fault) ==
    LET r1 == setUserState(r, WaitingConfirmation(hasPlan, plan), fault)
    IN IF r1.threw THEN r1
       ELSE IF ~hasPlan THEN Throw(r1)
       ELSE Return(r1, formatPlanForConfirmation(plan, TRUE))

\* case 'plan_complex_task'
PlanComplexTask(r, intent, env, inp) ==
    IF intent.objectiveTitle # ""
    THEN LET r1 == SheetRead(r, inp.fault)
             objective == findObjectiveByTitle(env.objectives, UserId,
                                               intent.objectiveTitle)
         IN IF r1.threw THEN r1
            ELSE IF objective = NoObjective
            THEN Return(r1, <<"objective_not_found_create_it",
                              intent.objectiveTitle>>)
            ELSE IF ~intent.hasPlan THEN Throw(r1)
            ELSE ProposePlan(r1, TRUE,
                     InjectObjective(intent.plan, objective.objective_id),
                     inp.fault)
    ELSE ProposePlan(r, intent.hasPlan, intent.plan, inp.fault)

\* handleListEvents: listEvents recovers from its own failure with no events
handleListEvents(r, env, inp) ==
    LET events == EventsById(env.calendar, inp.hits)
        r1 == [r EXCEPT !.gcal = Append(@, GcalCall("list", 0, "", TRUE))]
    IN Return(r1, IF events = <<>> THEN <<"nothing_scheduled">>
                  ELSE <<"events">> \o EventSummaries(events))

\* A variant of handleCreateEvent that asks the event store whatever the
\* start time is.
handleCreateEventAnyStart(r, intent, env, inp) ==
    IF ~intent.hasParams \/ intent.summary = "" \/ intent.startTime = 0
    THEN Return(r, <<"need_summary_and_start_time">>)
    ELSE LET ok == 1 \notin inp.rejects /\ intent.startTime # InvalidDate
             r1 == [r EXCEPT !.gcal = Append(@, GcalCall("create",
                        IF ok THEN env.nextEventId ELSE 0, intent.summary, ok))]
         IN IF ok THEN Return(r1, <<"event_created", intent.summary>>)
            ELSE Return(r1, <<"sorry_create_failed">>)

\* handleCreateEvent: its own try/catch turns a failure into a reply.  With
\* no endTime the end is computed from the start, and toISOString throws
\* for a start that is no date, before the event store is asked; the event
\* store rejects a start that is no date.
handleCreateEvent(r, intent, env, inp) ==
    IF ~intent.hasParams \/ intent.summary = "" \/ intent.startTime = 0
    THEN Return(r, <<"need_summary_and_start_time">>)
    ELSE IF intent.endTime = 0 /\ intent.startTime = InvalidDate
    THEN Return(r, <<"sorry_create_failed">>)
    ELSE LET ok == 1 \notin inp.rejects /\ intent.startTime # InvalidDate
             r1 == [r EXCEPT !.gcal = Append(@, GcalCall("create",
                        IF ok THEN env.nextEventId ELSE 0, intent.summary, ok))]
         IN IF ok THEN Return(r1, <<"event_created", intent.summary>>)
            ELSE Return(r1, <<"sorry_create_failed">>)

\* handleDeleteRequest: searchEvents recovers from its own failure with no
\* events
handleDeleteRequest(r, intent, env, inp) ==
    IF ~intent.hasParams \/ intent.query = ""
    THEN Return(r, <<"which_event_to_delete">>)
    ELSE LET foundEvents == EventsById(env.calendar, inp.hits)
             r1 == [r EXCEPT !.gcal = Append(@, GcalCall("search", 0, "", TRUE))]
         IN IF foundEvents = <<>>
            THEN Return(r1, <<"no_event_matches">>)
            ELSE LET r2 == setUserState(r1,
                              WaitingDeleteConfirmation(foundEvents), inp.fault)
                 IN IF r2.threw THEN r2
                    ELSE IF Len(foundEvents) = 1
                    THEN Return(r2, <<"found_one_delete_it">>
                                    \o EventSummaries(foundEvents))
                    ELSE Return(r2, <<"found_several_which_one">>
                                    \o EventSummaries(foundEvents))

\* case 'create_learning_objective'
CreateLearningObjective(r, intent, env, inp) ==
    IF ~intent.hasParams THEN Throw(r)
    ELSE IF intent.title = "" THEN Return(r, <<"tell_me_your_objective">>)
    ELSE IF Fails(r, inp.fault) THEN Throw([r EXCEPT !.calls = @ + 1])
    ELSE Return([r EXCEPT !.calls = @ + 1,
                   !.sheet = Append(@, SheetCall("createObjective",
                                Len(env.objectives) + 1 + 100, 0, intent.title))],
                <<"objective_created", intent.title>>)

\* case 'plan_for_objective'
PlanForObjective(r, intent, env, inp) ==
    IF ~intent.hasParams THEN Throw(r)
    ELSE LET r1 == SheetRead(r, inp.fault)
             objective == findObjectiveByTitle(env.objectives, UserId,
                                               intent.objectiveTitle)
         IN IF r1.threw THEN r1
            ELSE IF objective = NoObjective
            THEN Return(r1, <<"objective_not_found_create_it",
                              intent.objectiveTitle>>)
            ELSE LET planIntent == generatePlanForObjective(inp.o2)
                     r2 == Ask(r1, "generatePlanForObjective", inp.o2)
                 IN IF ~planIntent.hasPlan THEN Throw(r2)
                    ELSE ProposePlan(r2, TRUE,
                            InjectObjective(planIntent.plan,
                                            objective.objective_id), inp.fault)

\* The switch on intent.action.
Dispatch(r, intent, env, inp) ==
    CASE intent.action = "plan_complex_task" -> PlanComplexTask(r, intent, env, inp)
      [] intent.action = "list_events" -> handleListEvents(r, env, inp)
      [] intent.action = "create_event" -> handleCreateEvent(r, intent, env, inp)
      [] intent.action = "clarify_or_reject" ->
            IF intent.hasParams THEN Return(r, intent.response) ELSE Throw(r)
      [] intent.action = "delete_event" -> handleDeleteRequest(r, intent, env, inp)
      [] intent.action = "create_learning_objective" ->
            CreateLearningObjective(r, intent, env, inp)
      [] intent.action = "plan_for_objective" -> PlanForObjective(r, intent, env, inp)
      [] intent.action = "plan_generic_task" ->
            ProposePlan(r, intent.hasPlan, intent.plan, inp.fault)
      [] OTHER -> Return(r, <<"sorry_do_not_understand">>)

\* The try block of a fresh request and its catch: whatever is thrown inside
\* becomes the generic failure reply.
FreshRequest(r, env, inp) ==
    LET r1 == Ask(r, "understandAndPlan", inp.o1)
        r2 == Dispatch(r1, understandAndPlan(inp.o1), env, inp)
    IN IF r2.threw
       THEN Return([r2 EXCEPT !.threw = FALSE], GenericFailure)
       ELSE r2

\* A variant of handleMessage in which the deletion branch does not return.
handleMessageFallingThrough(cell, env, inp) ==
    LET parsed == ParseStateJson(cell)
        userState == parsed.value
    IN IF parsed.threw THEN Throw(R0)
       ELSE IF userState = Null THEN FreshRequest(R0, env, inp)
       ELSE CASE userState.status = "waiting_confirmation" ->
                    WaitingConfirmationBranch(R0, userState, env, inp)
              [] userState.status = "waiting_delete_confirmation" ->
                    LET r1 == WaitingDeleteBranch(R0, userState, env, inp)
                    IN IF r1.threw THEN r1 ELSE FreshRequest(r1, env, inp)
              [] userState.status = "waiting_plan_correction" ->
                    WaitingPlanCorrectionBranch(R0, userState, env, inp)
              [] userState.status = "waiting_knowledge_action" ->
                    WaitingKnowledgeBranch(R0, userState, env, inp)
              [] OTHER ->
                    LET r1 == setUserState(R0, Null, inp.fault)
                    IN IF r1.threw THEN r1 ELSE FreshRequest(r1, env, inp)

\* CalendarHandler.handleMessage
handleMessage(cell, env, inp) ==
    LET parsed == ParseStateJson(cell)
        userState == parsed.value
    IN IF parsed.threw THEN Throw(R0)
       ELSE IF userState = Null THEN FreshRequest(R0, env, inp)
       ELSE CASE userState.status = "waiting_confirmation" ->
                    WaitingConfirmationBranch(R0, userState, env, inp)
              [] userState.status = "waiting_delete_confirmation" ->
                    WaitingDeleteBranch(R0, userState, env, inp)
              [] userState.status = "waiting_plan_correction" ->
                    WaitingPlanCorrectionBranch(R0, userState, env, inp)
              [] userState.status = "waiting_knowledge_action" ->
                    WaitingKnowledgeBranch(R0, userState, env, inp)
              [] OTHER ->
                    LET r1 == setUserState(R0, Null, inp.fault)
                    IN IF r1.threw THEN r1 ELSE FreshRequest(r1, env, inp)

---------------------------------------------------------------------------
(* The oracle's raw outputs, per operation *)

UnderstandOutputs ==
    {Malformed, Intent("list_events"), Intent("other")}
    \cup {[WithPlan(Intent("plan_complex_task"), p) EXCEPT !.objectiveTitle = t] :
             p \in TextPlans, t \in {"", "T1"}}
    \cup {[Intent("plan_complex_task") EXCEPT !.objectiveTitle = t] :
             t \in {"", "T1"}}
    \cup {WithPlan(Intent("plan_generic_task"), p) : p \in TextPlans}
    \cup {Intent("plan_generic_task")}
    \cup {Intent("create_event"),
          [WithParams(Intent("create_event")) EXCEPT !.summary = "A"],
          [WithParams(Intent("create_event")) EXCEPT !.summary = "B", !.startTime = 1],
          [WithParams(Intent("create_event")) EXCEPT !.summary = "B",
              !.startTime = InvalidDate],
          [WithParams(Intent("create_event")) EXCEPT !.summary = "B",
              !.startTime = InvalidDate, !.endTime = 2]}
    \cup {Intent("clarify_or_reject")}
    \cup {[WithParams(Intent("clarify_or_reject")) EXCEPT !.response = t] :
             t \in OracleTexts}
    \cup {Intent("delete_event"),
          [WithParams(Intent("delete_event")) EXCEPT !.query = "q"]}
    \cup {Intent("create_learning_objective")}
    \cup {[WithParams(Intent("create_learning_objective")) EXCEPT !.title = t] :
             t \in {"", "T1"}}
    \cup {Intent("plan_for_objective")}
    \cup {[WithParams(Intent("plan_for_objective")) EXCEPT !.objectiveTitle = t] :
             t \in Titles}
    \cup {[WithParams(Intent("link_note_to_objective")) EXCEPT !.objectiveTitle = t] :
             t \in Titles \cup {""}}

GenPlanOutputs ==
    {Malformed, Intent("plan_complex_task")}
    \cup {WithPlan(Intent("plan_complex_task"), p) : p \in TextPlans}

\* An object with a plan of any length; an array or an object that names its
\* action, with the longest plan.
ModifyOutputs ==
    {Malformed, Intent(""), Intent("plan_complex_task")}
    \cup {WithPlan(Intent(""), p) : p \in TextPlans}
    \cup {[WithPlan(Intent(""), p) EXCEPT !.isArray = TRUE] :
             p \in {q \in TextPlans : Len(q) = MaxPlanLen}}
    \cup {WithPlan(Intent("plan_complex_task"), p) :
             p \in {q \in TextPlans : Len(q) = MaxPlanLen}}
    \cup {[WithParams(Intent("clarify_or_reject")) EXCEPT !.response = t] :
             t \in OracleTexts}
    \cup {Intent("clarify_or_reject")}

\* Indices run one past the last candidate.
ChoiceOutputs ==
    {Malformed, Intent("")}
    \cup {[Intent("") EXCEPT !.selection = k] : k \in {"all", "none"}}
    \cup {[Intent("") EXCEPT !.selection = "list", !.indices = ix] :
             ix \in SeqsUpTo(0..MaxEvents, 2)}

\* The merged plans: every step dated, or a step still without a date.
MergedPlans ==
    {[i \in 1..n |-> PlanEvent("A", 1, 0, 0)] : n \in 0..MaxPlanLen}
    \cup { <<PlanEvent("A", 0, 0, 0)>> }

MergeOutputs ==
    {Malformed, Intent("plan_complex_task"),
     [Intent("plan_complex_task") EXCEPT !.error = TRUE]}
    \cup {WithPlan(Intent("plan_complex_task"), p) : p \in MergedPlans}

KnowledgeOutputs ==
    {Malformed} \cup {[Intent("") EXCEPT !.text = t] : t \in OracleTexts}

---------------------------------------------------------------------------
(* LineHandler: the webhook boundary *)

HelpCommands == { <<"/", "h", "e", "l", "p">>, <<"bang", "zhu">>, <<"shuo", "ming">> }
StatusCommands == { <<"/", "s", "t", "a", "t", "u", "s">>, <<"zhuang", "tai">> }

\* What handling one webhook event did.  hm: the result of handleMessage
\* (hmCalled says whether it was called); replyCalls: the calls of the LINE
\* reply API on the event's reply token; sent: the texts that reached the
\* user on the reply slot; threw: an exception is in flight; dispatched: a
\* background task was started; pushCalls, pushed: the calls of the push API
\* and the texts they delivered.
L0 ==
    [hmCalled |-> FALSE, hm |-> R0, threw |-> FALSE, text |-> <<>>,
     replyCalls |-> 0, sent |-> <<>>, dispatched |-> FALSE,
     pushCalls |-> 0, pushed |-> <<>>]

\* LineHandler.replyMessage: a blank text is dropped without a call; the
\* call of the LINE API throws when the API fails (the first replyFails
\* calls on this token do).
replyMessage(l, text, replyFails) ==
    IF IsBlankText(text) THEN l
    ELSE IF l.replyCalls + 1 <= replyFails
    THEN [l EXCEPT !.replyCalls = @ + 1, !.threw = TRUE]
    ELSE [l EXCEPT !.replyCalls = @ + 1, !.sent = Append(@, text)]

\* A variant of handleTextMessage without the special commands.
handleTextMessageNoCommands(cell, env, inp) ==
    IF inp.userFails THEN [L0 EXCEPT !.threw = TRUE]
    ELSE LET r == handleMessage(cell, env, inp)
         IN [L0 EXCEPT !.hmCalled = TRUE, !.hm = r, !.threw = r.threw,
                       !.text = r.reply]

\* LineHandler.handleTextMessage
handleTextMessage(cell, env, inp) ==
    LET userText == Trim(inp.msg)
    IN IF userText \in HelpCommands
       THEN [L0 EXCEPT !.text = <<"help_text">>]
       ELSE IF userText \in StatusCommands
       THEN [L0 EXCEPT !.text = <<"status_text">>]
       ELSE IF inp.userFails THEN [L0 EXCEPT !.threw = TRUE]
       ELSE LET r == handleMessage(cell, env, inp)
            IN [L0 EXCEPT !.hmCalled = TRUE, !.hm = r, !.threw = r.threw,
                          !.text = r.reply]

\* A variant of handleImageMessage in which handleImage returns the
\* acknowledgement once the image oracle has answered.
handleImageAwaited(inp) ==
    IF inp.userFails
    THEN [L0 EXCEPT !.text = <<"sorry_image_failed">>]
    ELSE [L0 EXCEPT !.text = <<"image_received_analysing">>,
                    !.dispatched = TRUE,
                    !.hm = Ask(R0, "analyzeImageAndPlan", inp.o1)]

\* LineHandler.handleImageMessage: its catch turns a failed download or
\* user lookup into a reply; otherwise handleImage dispatches the
\* background task and returns the acknowledgement at once.
handleImageMessage(inp) ==
    IF inp.userFails
    THEN [L0 EXCEPT !.text = <<"sorry_image_failed">>]
    ELSE [L0 EXCEPT !.text = <<"image_received_analysing">>, !.dispatched = TRUE]

\* LineHandler.handleSingleEvent after the event passed the first check:
\* reply with the handler's text; on any exception reply with the error text
\* and swallow a failure of that second reply.
ReplyOrRecover(l, replyFails) ==
    LET l1 == IF l.threw THEN l ELSE replyMessage(l, l.text, replyFails)
    IN IF l1.threw
       THEN [replyMessage([l1 EXCEPT !.threw = FALSE],
                          <<"sorry_error_handling_message">>, replyFails)
                EXCEPT !.threw = FALSE]
       ELSE l1

---------------------------------------------------------------------------
(* The image background task *)

\* Steps an image oracle extracts: the summary or the date may be missing.
ImageSteps ==
    {PlanEvent("A", 1, 0, 0), PlanEvent("B", 1, 0, 0), PlanEvent("A", 0, 0, 0),
     PlanEvent("", 1, 0, 0)}

ImagePlans == SeqsUpTo(ImageSteps, MaxPlanLen)

AnalyzeOutputs ==
    {Malformed, Intent("reconstruct_knowledge"), Intent("plan_complex_task"),
     Intent("create_event"), Intent("other")}
    \cup {WithPlan(Intent("plan_complex_task"), p) : p \in ImagePlans}
    \cup {[WithParams(Intent("create_event")) EXCEPT !.summary = "A", !.startTime = t] :
             t \in {0, 1}}

analyzeImageAndPlan(raw) ==
    IF raw.malformed
    THEN [WithParams(Intent("clarify_or_reject")) EXCEPT
              !.response = <<"sorry_cannot_read_image">>]
    ELSE raw

\* event.summary && (event.date || event.startTime)
IsCompleteEvent(e) == e.summary # "" /\ (e.date # 0 \/ e.startTime # 0)

\* A variant of the second filter that keeps every event.
EveryEvent(events, i) == SubSeq(events, i, Len(events))

\* index === self.findIndex(t => t.summary === event.summary && t.date === event.date)
RECURSIVE UniqueEvents(_, _)
UniqueEvents(events, i) ==
    IF i > Len(events) THEN <<>>
    ELSE (IF \E j \in 1..(i - 1) : /\ events[j].summary = events[i].summary
                                   /\ events[j].date = events[i].date
          THEN <<>> ELSE <<events[i]>>)
         \o UniqueEvents(events, i + 1)

\* The post-processing of an image-derived plan.
PostProcess(intent) ==
    IF intent.action = "plan_complex_task" /\ intent.hasPlan
    THEN [intent EXCEPT
            !.plan = UniqueEvents(SelectSeq(intent.plan, IsCompleteEvent), 1)]
    ELSE intent

\* plan.every(event => event.date || event.startTime)
isPlanComplete(plan) ==
    \A i \in 1..Len(plan) : plan[i].date # 0 \/ plan[i].startTime # 0

formatIncompletePlanAsTemplate(plan) ==
    <<"please_fill_in_dates">>
    \o Concat([i \in 1..Len(plan) |->
                  <<"event", ToString(i), plan[i].summary,
                    IF plan[i].date # 0 \/ plan[i].startTime # 0
                    THEN "date" ELSE "fill_in_date">>])
    \o <<"reply_like_this">>

\* preparePushMessageFromIntent, after the post-processing
PreparePush(r, intent, env, inp) ==
    CASE intent.action = "reconstruct_knowledge" ->
            IF Fails(r, inp.fault) THEN Throw([r EXCEPT !.calls = @ + 1])
            ELSE LET newNoteId == Len(env.notes) + 1
                     r1 == [r EXCEPT !.calls = @ + 1,
                              !.sheet = Append(@, SheetCall("saveNote",
                                                   newNoteId, 0, ""))]
                     r2 == setUserState(r1, WaitingKnowledgeAction(newNoteId),
                                        inp.fault)
                 IN IF r2.threw THEN r2 ELSE Return(r2, <<"analysis_done">>)
      [] intent.action = "plan_complex_task" ->
            IF ~intent.hasPlan THEN Throw(r)
            ELSE IF isPlanComplete(intent.plan)
            THEN ProposePlan(r, TRUE, intent.plan, inp.fault)
            ELSE IF Len(intent.plan) = 0
            THEN Return(r, <<"no_complete_activity">>)
            ELSE LET r1 == setUserState(r,
                              WaitingPlanCorrection(TRUE, intent.plan), inp.fault)
                 IN IF r1.threw THEN r1
                    ELSE Return(r1, formatIncompletePlanAsTemplate(intent.plan))
      [] intent.action = "create_event" ->
            LET step == PlanEvent(intent.summary, 0, intent.startTime, 0)
            IN IF intent.hasParams /\ intent.startTime # 0
               THEN ProposePlan(r, TRUE, <<step>>, inp.fault)
               ELSE LET r1 == setUserState(r,
                                 WaitingPlanCorrection(TRUE,
                                     IF intent.hasParams THEN <<step>> ELSE <<>>),
                                 inp.fault)
                    IN IF r1.threw THEN r1
                       ELSE IF ~intent.hasParams THEN Throw(r1)
                       ELSE Return(r1, formatIncompletePlanAsTemplate(<<step>>))
      [] OTHER -> Return(r, <<"cannot_help_with_image">>)

\* LineHandler.pushMessage: the first pushFails calls of the push API throw.
pushMessage(l, text, pushFails) ==
    IF l.pushCalls + 1 <= pushFails
    THEN [l EXCEPT !.pushCalls = @ + 1, !.threw = TRUE]
    ELSE [l EXCEPT !.pushCalls = @ + 1, !.pushed = Append(@, text)]

\* A variant of processImageInBackground without the catch block: a failure
\* ends the task.
processImageWithoutCatch(env, inp) ==
    LET intent == analyzeImageAndPlan(inp.o1)
        r == PreparePush(Ask(R0, "analyzeImageAndPlan", inp.o1),
                         PostProcess(intent), env, inp)
        l == [L0 EXCEPT !.hmCalled = TRUE, !.hm = r, !.threw = r.threw,
                        !.text = r.reply]
    IN IF l.threw \/ l.text = <<>> THEN l
       ELSE pushMessage(l, l.text, inp.pushFails)

\* CalendarHandler.processImageInBackground: push the prepared text; on any
\* exception (of the preparation or of that push) push the apology.
processImageInBackground(env, inp) ==
    LET intent == analyzeImageAndPlan(inp.o1)
        r == PreparePush(Ask(R0, "analyzeImageAndPlan", inp.o1),
                         PostProcess(intent), env, inp)
        l == [L0 EXCEPT !.hmCalled = TRUE, !.hm = r, !.threw = r.threw,
                        !.text = r.reply]
        l1 == IF l.threw \/ l.text = <<>> THEN l
              ELSE pushMessage(l, l.text, inp.pushFails)
    IN IF l1.threw
       THEN pushMessage([l1 EXCEPT !.threw = FALSE],
                        <<"sorry_image_analysis_trouble">>, inp.pushFails)
       ELSE l1

---------------------------------------------------------------------------
(* The stores after a handling *)

\* The event store after the calls of a handling.
RECURSIVE ApplyGcal(_, _)
ApplyGcal(cal, calls) ==
    IF calls = <<>> THEN cal
    ELSE LET c == Head(calls)
         IN ApplyGcal(CASE c.op = "create" /\ c.ok ->
                               cal \cup {[id |-> c.id, summary |-> c.summary]}
                        [] c.op = "delete" /\ c.ok ->
                               {e \in cal : e.id # c.id}
                        [] OTHER -> cal,
                      Tail(calls))

\* GoogleSheetService.linkEventToObjective: append the id to the first row
\* with this objective id; no row, no change.
linkEventToObjective(rows, objectiveId, eventId) ==
    LET hits == {i \in 1..Len(rows) : rows[i].objective_id = objectiveId}
    IN IF hits = {} THEN rows
       ELSE LET i == CHOOSE k \in hits : \A j \in hits : k <= j
            IN [rows EXCEPT ![i].gcal_event_ids = Append(@, eventId)]

\* GoogleSheetService.linkNoteToObjective: set the objective of the first
\* row with this note id; no row, no change.
linkNoteToObjective(rows, noteId, objectiveId) ==
    LET hits == {i \in 1..Len(rows) : rows[i].note_id = noteId}
    IN IF hits = {} THEN rows
       ELSE LET i == CHOOSE k \in hits : \A j \in hits : k <= j
            IN [rows EXCEPT ![i].objective_id = objectiveId]

RECURSIVE ApplyObjectives(_, _)
ApplyObjectives(rows, calls) ==
    IF calls = <<>> THEN rows
    ELSE LET c == Head(calls)
         IN ApplyObjectives(
                CASE c.op = "createObjective" ->
                        Append(rows, ObjectiveRow(c.id, UserId, c.title, <<>>))
                  [] c.op = "linkEvent" -> linkEventToObjective(rows, c.id, c.ref)
                  [] OTHER -> rows,
                Tail(calls))

RECURSIVE ApplyNotes(_, _)
ApplyNotes(rows, calls) ==
    IF calls = <<>> THEN rows
    ELSE LET c == Head(calls)
         IN ApplyNotes(
                CASE c.op = "saveNote" -> Append(rows, NoteRow(c.id, UserId, 0))
                  [] c.op = "linkNote" -> linkNoteToObjective(rows, c.id, c.ref)
                  [] OTHER -> rows,
                Tail(calls))

\* The state cell after the writes of a handling: the last write stands.
ApplyWrites(cell, writes) ==
    IF writes = <<>> THEN cell ELSE Stringify(Last(writes))

Env == [calendar |-> calendar, nextEventId |-> nextEventId,
        objectives |-> objectives, notes |-> notes]

\* The stores take the effects of result r.
Apply(r) ==
    /\ stateCell' = ApplyWrites(stateCell, r.writes)
    /\ calendar' = ApplyGcal(calendar, r.gcal)
    /\ nextEventId' = nextEventId + CreatedCount(r)
    /\ objectives' = ApplyObjectives(objectives, r.sheet)
    /\ notes' = ApplyNotes(notes, r.sheet)

\* The same, for a step that is possible only within the bounds of the
\* model.
Effects(r) ==
    /\ nextEventId + CreatedCount(r) <= MaxEvents + 1
    /\ Len(ApplyObjectives(objectives, r.sheet)) <= MaxObjectives
    /\ Len(ApplyNotes(notes, r.sheet)) <= MaxNotes
    /\ Apply(r)

---------------------------------------------------------------------------
(* The inputs of a handling *)

\* today: the day the clock shows.  The conversation is followed on a
\* Friday, where the cursor meets the weekend at once; the commit on every
\* day of the week is the subject of SpecCommit.
Inputs(msg, o1, o2, fault, rejects, hits, userFails, pushFails) ==
    [msg |-> msg, o1 |-> o1, o2 |-> o2, fault |-> fault, rejects |-> rejects,
     hits |-> hits, userFails |-> userFails, pushFails |-> pushFails,
     today |-> Friday]

\* The store calls a handling makes when none throws: the fault may hit
\* any one of them.
Faults(faultFree) == 0..faultFree.calls

\* The creations a handling attempts: the event store may reject any of them.
Rejects(faultFree) ==
    SUBSET {k \in 1..Len(faultFree.gcal) : faultFree.gcal[k].op = "create"}

IsCommand(msg) == Trim(msg) \in HelpCommands \cup StatusCommands

\* Outside waiting_confirmation the state machine only hands the message to
\* the oracle, whose output is any of its outputs whatever the message: one
\* message stands for all that are no command.
MessagesFor(cell) ==
    IF ParseStateJson(cell).value.status = "waiting_confirmation"
    THEN Messages
    ELSE {m \in Messages : IsCommand(m)} \cup { <<"gai", "duan">> }

\* The oracle operation a text handling asks first, given the persisted cell
\* and the message: its possible raw outputs.
FirstOutputs(cell, msg) ==
    LET parsed == ParseStateJson(cell)
        st == parsed.value
    IN IF parsed.threw THEN {NoOutput}
       ELSE CASE st.status = "waiting_confirmation" ->
                    IF \/ isPureConfirmation(Trim(msg))
                       \/ isNegativeResponse(Trim(msg))
                    THEN {NoOutput} ELSE ModifyOutputs
              [] st.status = "waiting_delete_confirmation" -> ChoiceOutputs
              [] st.status = "waiting_plan_correction" -> MergeOutputs
              [] st.status = "waiting_knowledge_action" ->
                    IF st.noteId = 0 THEN {NoOutput} ELSE UnderstandOutputs
              [] OTHER -> UnderstandOutputs

\* The raw outputs of the second operation it may ask.
SecondOutputs(cell, o1) ==
    IF ParseStateJson(cell).value.status = "waiting_knowledge_action"
    THEN KnowledgeOutputs
    ELSE IF o1.action = "plan_for_objective" THEN GenPlanOutputs
    ELSE {NoOutput}

\* What a search or a listing may find: any events of the store.
Hits(o1) ==
    IF o1.action \in {"delete_event", "list_events"}
    THEN SUBSET {e.id : e \in calendar}
    ELSE {{}}

---------------------------------------------------------------------------
(* The state machine *)

NoMessage == <<>>

\* The handling observed: the event's kind and message, the persisted cell
\* it started from, the store call that threw (0: none) and what it did.
Record(kind, msg, fault, l) ==
    [kind |-> kind, msg |-> msg, start |-> stateCell, fault |-> fault, l |-> l]

Init ==
    /\ stateCell = EmptyCell
    /\ calendar = {}
    /\ nextEventId = 1
    /\ objectives = <<>>
    /\ notes = <<>>
    /\ bgTasks = 0
    /\ running = <<>>
    /\ users = <<>>
    /\ last = [kind |-> "none", msg |-> NoMessage, start |-> EmptyCell, fault |-> 0,
              l |-> L0]

\* One handling is observed at a time: the next one starts once the outcome
\* of the last one has been answered for.
NoneInProgress == last.kind = "none"

\* A webhook event that is no message, or carries no user id: ignored.
IgnoredEvent ==
    /\ NoneInProgress
    /\ last' = Record("ignored", NoMessage, 0, L0)
    /\ UNCHANGED <<stateCell, calendar, nextEventId, objectives, notes, bgTasks,
                 running, users>>

\* A message that is neither text nor image.
OtherMessageEvent ==
    /\ NoneInProgress
    /\ \E replyFails \in 0..MaxReplyFails :
        /\ last' = Record("other", NoMessage, 0,
                          ReplyOrRecover([L0 EXCEPT !.text = <<"text_only">>],
                                         replyFails))
        /\ UNCHANGED <<stateCell, calendar, nextEventId, objectives, notes, bgTasks,
                 running, users>>

\* A text message: handleSingleEvent, handleTextMessage, handleMessage.
TextEvent ==
    /\ NoneInProgress
    /\ \E msg \in MessagesFor(stateCell), replyFails \in 0..MaxReplyFails :
      \E o1 \in (IF IsCommand(msg) THEN {NoOutput}
                 ELSE FirstOutputs(stateCell, msg)) :
        \E o2 \in SecondOutputs(stateCell, o1), hits \in Hits(o1) :
          LET inp0 == Inputs(msg, o1, o2, 0, {}, hits, FALSE, 0)
              faultFree == handleTextMessage(stateCell, Env, inp0).hm
          IN \E fault \in Faults(faultFree), rejects \in Rejects(faultFree) :
               LET inp == [inp0 EXCEPT !.fault = fault, !.rejects = rejects]
                   l == handleTextMessage(stateCell, Env, inp)
               IN /\ Effects(l.hm)
                  /\ last' = Record("text", msg, fault,
                                     ReplyOrRecover(l, replyFails))
                  /\ UNCHANGED <<bgTasks, running, users>>

\* A text message for which the user lookup (findOrCreateUser) throws.
TextEventLookupFails ==
    /\ NoneInProgress
    /\ \E msg \in { <<"gai", "duan">> }, replyFails \in 0..MaxReplyFails :
        LET inp == Inputs(msg, NoOutput, NoOutput, 0, {}, {}, TRUE, 0)
            l == handleTextMessage(stateCell, Env, inp)
        IN /\ last' = Record("text", msg, 0, ReplyOrRecover(l, replyFails))
           /\ UNCHANGED <<stateCell, calendar, nextEventId, objectives, notes,
                          bgTasks, running, users>>

\* An image message: the acknowledgement is the reply; the background task
\* is dispatched and not awaited.
ImageEvent ==
    /\ NoneInProgress
    /\ \E userFails \in BOOLEAN, replyFails \in 0..MaxReplyFails :
        LET l == handleImageMessage(Inputs(NoMessage, NoOutput, NoOutput, 0,
                                           {}, {}, userFails, 0))
        IN /\ bgTasks + (IF l.dispatched THEN 1 ELSE 0) <= MaxBgTasks
           /\ bgTasks' = bgTasks + (IF l.dispatched THEN 1 ELSE 0)
           /\ last' = Record("image", NoMessage, 0, ReplyOrRecover(l, replyFails))
           /\ UNCHANGED <<stateCell, calendar, nextEventId, objectives, notes,
                          running, users>>

\* A dispatched background task runs to its end, the image oracle answering
\* with one of outputs.
BackgroundTaskOn(outputs) ==
    /\ NoneInProgress
    /\ bgTasks > 0
    /\ bgTasks' = bgTasks - 1
    /\ UNCHANGED <<running, users>>
    /\ \E o1 \in outputs, pushFails \in 0..MaxPushFails :
          LET inp0 == Inputs(NoMessage, o1, NoOutput, 0, {}, {}, FALSE, pushFails)
              faultFree == processImageInBackground(Env, inp0).hm
          IN \E fault \in Faults(faultFree) :
               LET l == processImageInBackground(Env, [inp0 EXCEPT !.fault = fault])
               IN /\ Effects(l.hm)
                  /\ last' = Record("background", NoMessage, fault, l)

BackgroundTask == BackgroundTaskOn(AnalyzeOutputs)

\* The webhook route answers the platform once the events are handled; a
\* background task just ends.
Respond ==
    /\ ~NoneInProgress
    /\ last' = [kind |-> "none", msg |-> NoMessage, start |-> EmptyCell, fault |-> 0,
              l |-> L0]
    /\ UNCHANGED <<stateCell, calendar, nextEventId, objectives, notes, bgTasks,
                 running, users>>

Next ==
    \/ IgnoredEvent
    \/ OtherMessageEvent
    \/ TextEvent
    \/ TextEventLookupFails
    \/ ImageEvent
    \/ BackgroundTask
    \/ Respond

Spec == Init /\ [][Next]_vars

\* The text conversation alone: no image arrives.
NextText ==
    \/ IgnoredEvent
    \/ OtherMessageEvent
    \/ TextEvent
    \/ TextEventLookupFails
    \/ Respond

SpecText == Init /\ [][NextText]_vars

\* The Users sheet is a spreadsheet that other hands and other versions of
\* the program write too: the cell of a user's row may hold the text of a
\* state with a tag this version does not know, or text that is no JSON.
UnknownTagCell == Stringify(State("waiting_something_else", FALSE, <<>>, <<>>, 0))

StoredCells == {EmptyCell, UnknownTagCell, GarbageCell}

InitStored ==
    /\ stateCell \in StoredCells
    /\ calendar = {}
    /\ nextEventId = 1
    /\ objectives = <<>>
    /\ notes = <<>>
    /\ bgTasks = 0
    /\ running = <<>>
    /\ users = <<>>
    /\ last = [kind |-> "none", msg |-> NoMessage, start |-> EmptyCell, fault |-> 0,
              l |-> L0]

\* The text conversation of a user whose row holds any stored cell.
SpecStored == InitStored /\ [][NextText]_vars

---------------------------------------------------------------------------
(* The commit of a stored plan, on every day of the week *)

\* The steps of a stored plan: without a date, with or without an
\* objective; with a date; with a startTime, here on a Saturday; with a
\* date text that is no date.
CommitSteps ==
    {PlanEvent("A", 0, 0, 0), PlanEvent("A", 0, 0, 101),
     PlanEvent("A", 3, 0, 101), PlanEvent("A", 0, 6, 0),
     PlanEvent("A", InvalidDate, 0, 0)}

CommitPlans == SeqsUpTo(CommitSteps, MaxCommitLen)

\* The user has one objective and waits for the confirmation of a plan.
InitCommit ==
    /\ stateCell \in {Stringify(WaitingConfirmation(TRUE, p)) : p \in CommitPlans}
    /\ calendar = {}
    /\ nextEventId = 1
    /\ objectives = <<ObjectiveRow(101, UserId, "T1", <<>>)>>
    /\ notes = <<>>
    /\ bgTasks = 0
    /\ running = <<>>
    /\ users = <<>>
    /\ last = [kind |-> "none", msg |-> NoMessage, start |-> EmptyCell, fault |-> 0,
              l |-> L0]

\* The user confirms the stored plan, on any day of the week.
CommitEvent ==
    /\ NoneInProgress
    /\ ParseStateJson(stateCell).value.status = "waiting_confirmation"
    /\ \E today \in Today, replyFails \in 0..MaxReplyFails :
          LET msg == <<"hao">>
              inp0 == [Inputs(msg, NoOutput, NoOutput, 0, {}, {}, FALSE, 0)
                         EXCEPT !.today = today]
              faultFree == handleTextMessage(stateCell, Env, inp0).hm
          IN \E fault \in Faults(faultFree), rejects \in Rejects(faultFree) :
               LET inp == [inp0 EXCEPT !.fault = fault, !.rejects = rejects]
                   l == handleTextMessage(stateCell, Env, inp)
               IN /\ Apply(l.hm)
                  /\ last' = Record("text", msg, fault,
                                     ReplyOrRecover(l, replyFails))
                  /\ UNCHANGED <<bgTasks, running, users>>

NextCommit ==
    \/ CommitEvent
    \/ Respond

SpecCommit == InitCommit /\ [][NextCommit]_vars

---------------------------------------------------------------------------
(* Two commits in flight, followed from await to await *)

\* The steps of the plans two commits carry: of objective 101, of none.
LinkSteps == {PlanEvent("A", 0, 0, 101), PlanEvent("B", 0, 0, 0)}

LinkPlans == SeqsUpTo(LinkSteps, MaxPlanLen) \ { <<>> }

Commits == {1, 2}

\* A commit of handleCreatePlan in flight: the step i of its plan it works
\* on, what it awaits (create: createEvent; get: the values.get of
\* linkEventToObjective; update: its values.update; done: it has returned),
\* the id of the event it created for the step, the list it read from the
\* objective's row, and the ids whose link call has returned.
Commit(plan) ==
    [plan |-> plan, i |-> 1, pc |-> "create", eventId |-> 0,
     currentEventIds |-> <<>>, linked |-> {}]

\* The for loop goes to the next step of the plan, or ends.
NextItem(c) ==
    [c EXCEPT !.i = @ + 1,
              !.pc = IF c.i + 1 > Len(c.plan) THEN "done" ELSE "create"]

\* linkEventToObjective, the row its loop stops at: the first one with
\* this objective id (0: none).
ObjectiveRowIndex(rows, objectiveId) ==
    LET hits == {i \in 1..Len(rows) : rows[i].objective_id = objectiveId}
    IN IF hits = {} THEN 0 ELSE CHOOSE k \in hits : \A j \in hits : k <= j

\* linkEventToObjective, the values.update: column F of the row becomes the
\* list read before with the id appended.
UpdateEventIds(rows, i, currentEventIds, eventId) ==
    [rows EXCEPT ![i].gcal_event_ids = Append(currentEventIds, eventId)]

InitLink ==
    /\ stateCell = EmptyCell
    /\ calendar = {}
    /\ nextEventId = 1
    /\ objectives = <<ObjectiveRow(101, UserId, "T1", <<>>)>>
    /\ notes = <<>>
    /\ bgTasks = 0
    /\ last = [kind |-> "none", msg |-> NoMessage, start |-> EmptyCell, fault |-> 0,
              l |-> L0]
    /\ running \in [Commits -> {Commit(p) : p \in LinkPlans}]
    /\ users = <<>>

\* createEvent of the step returns or throws; a created step with an
\* objectiveId goes on to the link call.
CommitCreate(p) ==
    LET c == running[p]
        item == c.plan[c.i]
    IN /\ c.pc = "create"
       /\ \E ok \in BOOLEAN :
            IF ok
            THEN /\ calendar' = calendar \cup
                                   {[id |-> nextEventId, summary |-> item.summary]}
                 /\ nextEventId' = nextEventId + 1
                 /\ running' = [running EXCEPT ![p] =
                        IF item.objectiveId # 0
                        THEN [c EXCEPT !.pc = "get", !.eventId = nextEventId]
                        ELSE NextItem(c)]
            ELSE /\ running' = [running EXCEPT ![p] = NextItem(c)]
                 /\ UNCHANGED <<calendar, nextEventId>>
       /\ UNCHANGED <<stateCell, objectives, notes, bgTasks, last, users>>

\* The values.get of linkEventToObjective returns the rows (or throws, or
\* no row carries the id: the step is over).
CommitLinkGet(p) ==
    LET c == running[p]
        i == ObjectiveRowIndex(objectives, c.plan[c.i].objectiveId)
    IN /\ c.pc = "get"
       /\ \E ok \in BOOLEAN :
            running' = [running EXCEPT ![p] =
                IF ok /\ i # 0
                THEN [c EXCEPT !.pc = "update",
                               !.currentEventIds = objectives[i].gcal_event_ids]
                ELSE NextItem(c)]
       /\ UNCHANGED <<stateCell, calendar, nextEventId, objectives, notes,
                      bgTasks, last, users>>

\* The values.update of linkEventToObjective writes the row (or throws).
CommitLinkUpdate(p) ==
    LET c == running[p]
        i == ObjectiveRowIndex(objectives, c.plan[c.i].objectiveId)
    IN /\ c.pc = "update"
       /\ \E ok \in BOOLEAN :
            IF ok
            THEN /\ objectives' = UpdateEventIds(objectives, i,
                                                 c.currentEventIds, c.eventId)
                 /\ running' = [running EXCEPT ![p] =
                        NextItem([c EXCEPT !.linked = @ \cup {c.eventId}])]
            ELSE /\ running' = [running EXCEPT ![p] = NextItem(c)]
                 /\ UNCHANGED objectives
       /\ UNCHANGED <<stateCell, calendar, nextEventId, notes, bgTasks, last,
                      users>>

NextLink ==
    \E p \in Commits :
        \/ CommitCreate(p)
        \/ CommitLinkGet(p)
        \/ CommitLinkUpdate(p)

SpecLink == InitLink /\ [][NextLink]_vars

---------------------------------------------------------------------------
(* The images alone: flyers and notes sent to the bot *)

\* The steps the image oracle reads from a flyer: with a date, with a
\* startTime only, with neither, without a summary.
FlyerSteps ==
    {PlanEvent("A", 1, 0, 0), PlanEvent("A", 2, 0, 0), PlanEvent("B", 1, 0, 0),
     PlanEvent("A", 0, 5, 0), PlanEvent("A", 0, 6, 0), PlanEvent("A", 0, 0, 0),
     PlanEvent("", 1, 0, 0)}

FlyerPlans == SeqsUpTo(FlyerSteps, MaxCommitLen)

FlyerOutputs ==
    AnalyzeOutputs
    \cup {WithPlan(Intent("plan_complex_task"), p) : p \in FlyerPlans}

FlyerTask == BackgroundTaskOn(FlyerOutputs)

NextImage ==
    \/ ImageEvent
    \/ FlyerTask
    \/ Respond

SpecImage == Init /\ [][NextImage]_vars

\* The images the conversation meets, with the scheduling of the task: a
\* started task is not awaited by anything and waits for nothing but the
\* oracle and the stores, so the event loop runs it to its end whatever
\* else arrives.
NextTask ==
    \/ ImageEvent
    \/ BackgroundTask
    \/ Respond

SpecImageLive ==
    Init /\ [][NextTask]_vars /\ SF_vars(BackgroundTask) /\ WF_vars(Respond)

---------------------------------------------------------------------------
(* Two handlings of one user in flight *)

Handlings == {1, 2}

\* The cell the two handlings find: Idle, or a plan waiting for confirmation.
RaceCells == {EmptyCell, Stringify(WaitingConfirmation(TRUE, <<TextStep(1)>>))}

\* A handling in flight: what it is (a text message, or the background task
\* of an image), how far it is (arrived; read: findOrCreateUser has returned
\* the user's row; done), the cell of the row it was given, its inputs, the
\* stores it called and what it did; order: 1 for the handling that ended
\* first, 2 for the other.
Arrived(kind) ==
    [kind |-> kind, pc |-> "arrived", user |-> EmptyCell,
     inp |-> Inputs(NoMessage, NoOutput, NoOutput, 0, {}, {}, FALSE, 0),
     env |-> [calendar |-> {}, nextEventId |-> 1, objectives |-> <<>>,
              notes |-> <<>>],
     hm |-> R0, order |-> 0]

Ended == {h \in Handlings : running[h].pc = "done"}

\* A variant in which the handling reads the cell again when it runs.
StateStoredNow(user, stored) == stored

\* handleMessage takes the state from the user object it was handed
\* (user.state_json), not from the sheet.
StateHandedOver(user, stored) == user

InitRace ==
    /\ stateCell \in RaceCells
    /\ calendar = {}
    /\ nextEventId = 1
    /\ objectives = <<>>
    /\ notes = <<>>
    /\ bgTasks = 0
    /\ last = [kind |-> "none", msg |-> NoMessage, start |-> EmptyCell, fault |-> 0,
              l |-> L0]
    /\ users = <<>>
    /\ running \in {[h \in Handlings |-> Arrived(IF h = 1 THEN k ELSE "text")] :
                       k \in {"text", "background"}}

\* findOrCreateUser returns the user's row to a text handling.
RaceRead(h) ==
    /\ running[h].kind = "text"
    /\ running[h].pc = "arrived"
    /\ running' = [running EXCEPT ![h].pc = "read", ![h].user = stateCell]
    /\ UNCHANGED <<stateCell, calendar, nextEventId, objectives, notes, bgTasks,
                   last, users>>

\* handleMessage runs on the row the handling was given.
RaceHandle(h) ==
    /\ running[h].kind = "text"
    /\ running[h].pc = "read"
    /\ LET cell == StateHandedOver(running[h].user, stateCell)
       IN \E msg \in MessagesFor(cell) \ {m \in Messages : IsCommand(m)} :
            \E o1 \in FirstOutputs(cell, msg) :
              \E o2 \in SecondOutputs(cell, o1) :
                LET inp == Inputs(msg, o1, o2, 0, {}, {}, FALSE, 0)
                    hm == handleMessage(cell, Env, inp)
                IN /\ Apply(hm)
                   /\ running' = [running EXCEPT ![h] =
                          [@ EXCEPT !.pc = "done", !.inp = inp, !.env = Env,
                                    !.hm = hm,
                                    !.order = Cardinality(Ended) + 1]]
    /\ UNCHANGED <<bgTasks, last, users>>

\* The background task of an image runs; it reads no state.
RaceTask(h) ==
    /\ running[h].kind = "background"
    /\ running[h].pc = "arrived"
    /\ \E o1 \in AnalyzeOutputs :
         LET inp == Inputs(NoMessage, o1, NoOutput, 0, {}, {}, FALSE, 0)
             hm == processImageInBackground(Env, inp).hm
         IN /\ Apply(hm)
            /\ running' = [running EXCEPT ![h] =
                   [@ EXCEPT !.pc = "done", !.inp = inp, !.env = Env, !.hm = hm,
                             !.order = Cardinality(Ended) + 1]]
    /\ UNCHANGED <<bgTasks, last, users>>

NextRace ==
    \E h \in Handlings :
        \/ RaceRead(h)
        \/ RaceHandle(h)
        \/ RaceTask(h)

SpecRace == InitRace /\ [][NextRace]_vars

---------------------------------------------------------------------------
(* The rendering of a listing: formatEventsForLine *)

\* Asia/Taipei, the time zone of the calendar, is 8 hours ahead of UTC.
UtcOffset == 8

\* An event as the event store returns it: start.dateTime (kind "dateTime":
\* day and hour in the calendar's time zone, with its offset), start.date
\* (kind "date": an all-day event), or neither (kind "none").
CalendarEvent(summary, kind, day, hour) ==
    [summary |-> summary, kind |-> kind, day |-> day, hour |-> hour]

CalendarEvents ==
    {CalendarEvent("A", "dateTime", 2, 7), CalendarEvent("A", "dateTime", 2, 9),
     CalendarEvent("B", "dateTime", 2, 9), CalendarEvent("B", "dateTime", 3, 9),
     CalendarEvent("A", "date", 3, 0), CalendarEvent("A", "none", 0, 0)}

\* new Date(startDateTime).toISOString().split('T')[0]: the date in UTC.
DateKey(event) ==
    IF event.kind = "dateTime" /\ event.hour < UtcOffset
    THEN event.day - 1
    ELSE event.day

\* A line of the rendered text.
Line(type, day, index, count, summary, time) ==
    [type |-> type, day |-> day, index |-> index, count |-> count,
     summary |-> summary, time |-> time]

formatEventTime(event) ==
    IF event.kind = "dateTime" THEN ToString(event.hour) ELSE "all_day"

\* Array.from(eventsByDate.keys()).sort()
RECURSIVE SortedDates(_)
SortedDates(keys) ==
    IF keys = {} THEN <<>>
    ELSE LET least == CHOOSE k \in keys : \A j \in keys : k <= j
         IN <<least>> \o SortedDates(keys \ {least})

formatEventsForLine(events) ==
    IF Len(events) = 0 THEN <<Line("nothing_planned", 0, 0, 0, "", "")>>
    ELSE LET started == SelectSeq(events, LAMBDA e : e.kind # "none")
             eventsByDate == [k \in {DateKey(started[i]) : i \in 1..Len(started)} |->
                                 SelectSeq(started, LAMBDA e : DateKey(e) = k)]
         IN IF Cardinality(DOMAIN eventsByDate) = 1
            THEN LET dateKey == CHOOSE k \in DOMAIN eventsByDate : TRUE
                     dailyEvents == eventsByDate[dateKey]
                 IN <<Line("you_have_on", dateKey, 0, Len(dailyEvents), "", "")>>
                    \o [i \in 1..Len(dailyEvents) |->
                           Line("item", 0, i, 0, dailyEvents[i].summary,
                                formatEventTime(dailyEvents[i]))]
            ELSE LET sortedDates == SortedDates(DOMAIN eventsByDate)
                 IN <<Line("over_several_days", 0, 0, Len(events), "", "")>>
                    \o Concat([k \in 1..Len(sortedDates) |->
                          <<Line("date_header", sortedDates[k], 0, 0, "", "")>>
                          \o [i \in 1..Len(eventsByDate[sortedDates[k]]) |->
                                Line("entry", 0, 0, 0,
                                     eventsByDate[sortedDates[k]][i].summary,
                                     formatEventTime(eventsByDate[sortedDates[k]][i]))]])

\* The event store answers a listing with events in the order it chooses.
ListedEvents == SeqsUpTo(CalendarEvents, MaxListed)

\* A listing is rendered.
RenderListing ==
    /\ last.kind = "none"
    /\ \E events \in ListedEvents :
          last' = [kind |-> "listing", events |-> events,
                   text |-> formatEventsForLine(events)]
    /\ UNCHANGED <<stateCell, calendar, nextEventId, objectives, notes, bgTasks,
                   running, users>>

\* The text is sent.
ListingSent ==
    /\ last.kind = "listing"
    /\ last' = [kind |-> "none", msg |-> NoMessage, start |-> EmptyCell,
                fault |-> 0, l |-> L0]
    /\ UNCHANGED <<stateCell, calendar, nextEventId, objectives, notes, bgTasks,
                   running, users>>

NextListing ==
    \/ RenderListing
    \/ ListingSent

SpecListing == Init /\ [][NextListing]_vars

---------------------------------------------------------------------------
(* The status of the events linked to an objective: analyzeEventsStatus *)

\* Times are counted in days; the clock shows Now when the lookup starts.
Now == 10

\* 7 * 24 * 60 * 60 * 1000 ms
OneWeek == 7

\* What events.get answers for one event id: the event (its status and its
\* start; a cancelled event may come without start), or an error (404 for
\* a deleted event, or any other).
EventResponses ==
    {[ok |-> TRUE, status |-> s, hasStart |-> TRUE, start |-> t] :
        s \in {"confirmed", "cancelled"},
        t \in {Now - 1, Now, Now + OneWeek, Now + OneWeek + 1}}
    \cup {[ok |-> TRUE, status |-> "cancelled", hasStart |-> FALSE, start |-> 0],
          [ok |-> FALSE, status |-> "", hasStart |-> FALSE, start |-> 0]}

\* A variant of the classification that does not look at the status.
ClassOfAnyStatus(event, now) ==
    IF ~event.ok \/ ~event.hasStart THEN "skipped"
    ELSE IF event.start < now THEN "overdue"
    ELSE IF event.start <= now + OneWeek THEN "upcoming"
    ELSE "later"

\* One turn of the loop: an error of events.get, or of reading the start
\* of an event without one, is caught and the event skipped.
ClassOf(event, now) ==
    IF ~event.ok \/ ~event.hasStart THEN "skipped"
    ELSE IF event.status = "cancelled" THEN "cancelled"
    ELSE IF event.start < now THEN "overdue"
    ELSE IF event.start <= now + OneWeek THEN "upcoming"
    ELSE "later"

\* The ids pushed to one of the two lists, in the order of eventIds.
RECURSIVE EventsOfClass(_, _, _, _)
EventsOfClass(responses, class, now, i) ==
    IF i > Len(responses) THEN <<>>
    ELSE (IF ClassOf(responses[i], now) = class THEN <<i>> ELSE <<>>)
         \o EventsOfClass(responses, class, now, i + 1)

analyzeEventsStatus(responses, now) ==
    [upcomingEvents |-> EventsOfClass(responses, "upcoming", now, 1),
     overdueEvents |-> EventsOfClass(responses, "overdue", now, 1)]

\* The status of the linked events of an objective is looked up; event i
\* of the list gets the answer responses[i].
StatusLookup ==
    /\ last.kind = "none"
    /\ \E responses \in SeqsUpTo(EventResponses, MaxListed) :
          last' = [kind |-> "status", responses |-> responses, now |-> Now,
                   lists |-> analyzeEventsStatus(responses, Now)]
    /\ UNCHANGED <<stateCell, calendar, nextEventId, objectives, notes, bgTasks,
                   running, users>>

\* The lists are handed to the caller.
StatusReturned ==
    /\ last.kind = "status"
    /\ last' = [kind |-> "none", msg |-> NoMessage, start |-> EmptyCell,
                fault |-> 0, l |-> L0]
    /\ UNCHANGED <<stateCell, calendar, nextEventId, objectives, notes, bgTasks,
                   running, users>>

NextStatus ==
    \/ StatusLookup
    \/ StatusReturned

SpecStatus == Init /\ [][NextStatus]_vars

---------------------------------------------------------------------------
(* Several users: findOrCreateUser and the row a handling writes *)

\* The external ids (line_user_id) of the senders.
LineUserIds == {"U1", "U2"}

MaxDeliveries == 3

\* The text events in flight, all started by handleWebhookEvents.
Deliveries == 1..MaxDeliveries

\* A row of the Users sheet: columns A (id), B (line_user_id), D (state_json).
UserRow(id, lineUserId, cell) ==
    [id |-> id, line_user_id |-> lineUserId, state_json |-> cell]

\* The plan the oracle proposes for a request names its sender.
OwnPlan(lineUserId) ==
    <<PlanEvent(IF lineUserId = "U1" THEN "A" ELSE "B", 0, 0, 0)>>

\* A text handling of a sender: arrived; append (the id was not in the rows
\* read, the new row is still to be appended); found (findOrCreateUser has
\* returned rowNumber and user); done.
Delivered(lineUserId) ==
    [sender |-> lineUserId, pc |-> "arrived", rowNumber |-> 0, id |-> 0,
     user |-> EmptyCell, hm |-> R0]

\* The index of the first row that carries the id, 0 if none does.
RowIndexOf(rows, lineUserId) ==
    IF \E i \in 1..Len(rows) : rows[i].line_user_id = lineUserId
    THEN CHOOSE i \in 1..Len(rows) :
            /\ rows[i].line_user_id = lineUserId
            /\ \A j \in 1..(i - 1) : rows[j].line_user_id # lineUserId
    ELSE 0

InitUsers ==
    /\ stateCell = EmptyCell
    /\ calendar = {}
    /\ nextEventId = 1
    /\ objectives = <<>>
    /\ notes = <<>>
    /\ bgTasks = 0
    /\ last = [kind |-> "none", msg |-> NoMessage, start |-> EmptyCell, fault |-> 0,
              l |-> L0]
    /\ users = <<>>
    /\ running \in [Deliveries -> {Delivered(u) : u \in LineUserIds}]

\* findOrCreateUser, up to its second await: the rows are read (rows[0] is
\* the header, rows[i] is users[i]) and searched; a row found is returned
\* with its number i + 1; otherwise the id and the number of the new row
\* are computed from the rows read: rows.length and rows.length + 1.
UsersGet(h) ==
    /\ running[h].pc = "arrived"
    /\ LET i == RowIndexOf(users, running[h].sender)
       IN running' = [running EXCEPT ![h] =
              IF i # 0
              THEN [@ EXCEPT !.pc = "found", !.rowNumber = i + 1,
                             !.id = users[i].id,
                             !.user = users[i].state_json]
              ELSE [@ EXCEPT !.pc = "append", !.rowNumber = Len(users) + 2,
                             !.id = Len(users) + 1]]
    /\ UNCHANGED <<stateCell, calendar, nextEventId, objectives, notes, bgTasks,
                   last, users>>

\* values.append puts the new row below the last row the sheet has now.
UsersAppend(h) ==
    /\ running[h].pc = "append"
    /\ users' = Append(users, UserRow(running[h].id, running[h].sender,
                                      EmptyCell))
    /\ running' = [running EXCEPT ![h].pc = "found"]
    /\ UNCHANGED <<stateCell, calendar, nextEventId, objectives, notes, bgTasks,
                   last>>

\* What the oracle makes of the request: nothing to do, or a plan.
RequestOutputs(lineUserId) ==
    {Intent("other"),
     WithPlan(Intent("plan_complex_task"), OwnPlan(lineUserId))}

\* handleMessage runs on the user object and the row number returned; its
\* state writes go to Users!D of that row number.
UserHandled(h) ==
    /\ running[h].pc = "found"
    /\ \E o1 \in RequestOutputs(running[h].sender) :
         LET inp == Inputs(<<"gai", "duan">>, o1, NoOutput, 0, {}, {}, FALSE, 0)
             hm == handleMessage(running[h].user, Env, inp)
             row == running[h].rowNumber - 1
         IN /\ users' = [users EXCEPT ![row].state_json =
                              ApplyWrites(@, hm.writes)]
            /\ calendar' = ApplyGcal(calendar, hm.gcal)
            /\ nextEventId' = nextEventId + CreatedCount(hm)
            /\ objectives' = ApplyObjectives(objectives, hm.sheet)
            /\ notes' = ApplyNotes(notes, hm.sheet)
            /\ running' = [running EXCEPT ![h] =
                   [@ EXCEPT !.pc = "done", !.hm = hm]]
    /\ UNCHANGED <<stateCell, bgTasks, last>>

NextUsers ==
    \E h \in Deliveries :
        \/ UsersGet(h)
        \/ UsersAppend(h)
        \/ UserHandled(h)

SpecUsers == InitUsers /\ [][NextUsers]_vars

---------------------------------------------------------------------------
(* Properties *)

\* The handling observed called handleMessage.
Handled == last.kind = "text" /\ last.l.hmCalled

\* handleMessage returned a reply to its caller.
Returned == Handled /\ ~last.l.hm.threw

\* The state handleMessage read, and what it did.
StartState == ParseStateJson(last.start).value
Result == last.l.hm

Asked(op) == \E k \in 1..Len(Result.oracle) : Result.oracle[k].op = op

\* The affirmative and the negative tokens of the specification.
AffirmativeTokens ==
    { <<"hao">>, <<"ke", "yi">>, <<"o", "k">>, <<"tong", "yi4">> }

NegativeTokens ==
    { <<"bu", "yong">>, <<"qu", "xiao">>, <<"bu", "yao">>, <<"bu", "dui">> }

ContainsNegativeToken(msg) == \E t \in NegativeTokens : Includes(msg, t)

\* The plan was committed as stored: the state was reset and one creation
\* was asked of the event store per step, in order, with the step's summary.
CommittedStoredPlan ==
    /\ Result.writes = <<Null>>
    /\ ~Asked("modifyPlan")
    /\ Len(Result.gcal) = Len(StartState.plan)
    /\ \A k \in 1..Len(Result.gcal) :
          /\ Result.gcal[k].op = "create"
          /\ Result.gcal[k].summary = StartState.plan[k].summary

\* C1: handleMessage never raises an exception to its caller, whatever the
\* persisted state, the message, and the store or oracle call that fails.
C1_NeverRaises == Handled => ~Result.threw

C3_SomeTextSent ==
    (last.kind \in {"text", "image"} /\ last.l.replyCalls = Len(last.l.sent))
        => \E k \in 1..Len(last.l.sent) : ~IsBlankText(last.l.sent[k])

\* C4: in waiting_confirmation with a stored plan, a message whose trimmed
\* text is an affirmative token makes the state Idle and commits exactly the
\* stored plan, whatever its length, in every handling that returns.
C4_AffirmativeCommits ==
    (/\ Returned
     /\ StartState.status = "waiting_confirmation"
     /\ StartState.hasPlan
     /\ Trim(last.msg) \in AffirmativeTokens)
        => /\ CommittedStoredPlan
           /\ stateCell = EmptyCell

C4_Witness ==
    /\ Returned
    /\ StartState.status = "waiting_confirmation"
    /\ StartState.hasPlan
    /\ Len(StartState.plan) = MaxPlanLen
    /\ Trim(last.msg) \in AffirmativeTokens
    /\ last.msg # Trim(last.msg)
    /\ CreatedCount(Result) = MaxPlanLen

\* C5: in waiting_confirmation a message that equals an affirmative token up
\* to letter case commits the stored plan as the lower-case token does.
C5_CaseInsensitive ==
    (/\ Returned
     /\ last.fault = 0
     /\ StartState.status = "waiting_confirmation"
     /\ StartState.hasPlan
     /\ ToLowerCase(Trim(last.msg)) \in AffirmativeTokens)
        => CommittedStoredPlan

\* C6: in waiting_confirmation a message that contains a negative token
\* makes no call of the event store, and the handling that returns leaves
\* the state Idle.
C6_NegativeCancels ==
    (/\ Handled
     /\ StartState.status = "waiting_confirmation"
     /\ ContainsNegativeToken(last.msg))
        => /\ Result.gcal = <<>>
           /\ Returned => /\ Result.writes = <<Null>>
                          /\ stateCell = EmptyCell

C6_Witness ==
    /\ Returned
    /\ StartState.status = "waiting_confirmation"
    /\ Len(StartState.plan) > 0
    /\ ContainsNegativeToken(last.msg)
    /\ Trim(last.msg) \notin NegativeTokens
    /\ stateCell = EmptyCell

\* C7: in waiting_confirmation a message that is neither affirmative (in
\* any letter case) nor negative goes to modifyPlan; when the oracle returns a plan the state is
\* waiting_confirmation with that plan, otherwise the state is Idle; the
\* event store is not called.  No store call fails here.
C7_ModifyOutcome ==
    (/\ Handled
     /\ last.fault = 0
     /\ StartState.status = "waiting_confirmation"
     /\ StartState.hasPlan
     /\ ~isPureConfirmation(ToLowerCase(Trim(last.msg)))
     /\ ~isNegativeResponse(Trim(last.msg)))
        => /\ Asked("modifyPlan")
           /\ Result.gcal = <<>>
           /\ LET m == modifyPlan(Result.oracle[1].out)
              IN IF m.action = "plan_complex_task" /\ m.hasPlan
                 THEN stateCell = Stringify(WaitingConfirmation(TRUE, m.plan))
                 ELSE stateCell = EmptyCell

\* The positions (from 1) of the candidates a parsed choice selects.
SelectedPositions(events, choice) ==
    IF choice.selection = "all" THEN 1..Len(events)
    ELSE IF choice.selection = "list"
    THEN {p \in 1..Len(events) :
             \E k \in 1..Len(choice.indices) : choice.indices[k] = p - 1}
    ELSE {}

\* C8: in waiting_delete_confirmation the events deleted are the candidates
\* the oracle's choice selects ("all": every one; a list: those at its
\* 0-based positions; otherwise none), and the reply lists the summaries of
\* the events deleted, in every handling that returns.
C8_DeletesSelection ==
    (Returned /\ StartState.status = "waiting_delete_confirmation") =>
        LET events == StartState.events
            choice == parseDeletionChoice(Result.oracle[1].out)
            calls == Result.gcal
        IN /\ \A k \in 1..Len(calls) : calls[k].op = "delete" /\ calls[k].ok
           /\ {<<calls[k].id, calls[k].summary>> : k \in 1..Len(calls)}
                = {<<events[p].id, events[p].summary>> :
                      p \in SelectedPositions(events, choice)}
           /\ Result.reply =
                 (IF Len(calls) > 0
                  THEN <<"deleted", ToString(Len(calls))>>
                       \o [k \in 1..Len(calls) |-> calls[k].summary]
                  ELSE <<"delete_cancelled">>)

C8_Witness ==
    /\ Returned
    /\ StartState.status = "waiting_delete_confirmation"
    /\ Len(StartState.events) = 2
    /\ parseDeletionChoice(Result.oracle[1].out).selection = "list"
    /\ Len(Result.gcal) = 1
    /\ Result.gcal[1].id = StartState.events[2].id

\* C9: a handling in waiting_delete_confirmation ends with the state Idle,
\* also when a delete fails part-way (the state write itself does not fail).
C9_EndsIdle ==
    (/\ Handled
     /\ StartState.status = "waiting_delete_confirmation"
     /\ \/ ~Result.threw
        \/ \E k \in 1..Len(Result.gcal) : ~Result.gcal[k].ok)
        => stateCell = EmptyCell

\* C10: when handleMessage returns a reply for a message received in a
\* waiting state, it has written the state cell during that handling.
C10_NoDanglingState ==
    (Returned /\ StartState.status \in KnownStatuses)
        => Len(Result.writes) >= 1

\* C11: in waiting_plan_correction every reply is given to
\* mergePlanWithCorrection; when the oracle signals an error the state is
\* Idle, otherwise the state is waiting_confirmation holding the merged
\* plan, a sequence of steps; the event store is not called.  No store call
\* fails here.
C11_MergeOutcome ==
    (/\ Handled
     /\ last.fault = 0
     /\ StartState.status = "waiting_plan_correction")
        => /\ Asked("mergePlanWithCorrection")
           /\ Result.gcal = <<>>
           /\ LET m == mergePlanWithCorrection(StartState.hasPlan,
                           StartState.plan, Result.oracle[1].out)
              IN IF m.error
                 THEN stateCell = EmptyCell
                 ELSE /\ m.hasPlan
                      /\ stateCell = Stringify(WaitingConfirmation(TRUE, m.plan))

\* C12: in waiting_knowledge_action with a stored note, a reply understood
\* as an archive intent whose title an objective of the user carries links
\* exactly the stored note to that objective and leaves the state Idle;
\* every other reply asks processKnowledge, leaves the state Idle, returns
\* the generated text and links nothing.  (A handling in this state leaves
\* the objectives as they were.)
C12_KnowledgeAction ==
    (/\ Returned
     /\ StartState.status = "waiting_knowledge_action"
     /\ StartState.noteId # 0)
        => LET intent == understandAndPlan(Result.oracle[1].out)
               objective == findObjectiveByTitle(objectives, UserId,
                                                 intent.objectiveTitle)
           IN IF /\ intent.action = "link_note_to_objective"
                 /\ intent.objectiveTitle # ""
                 /\ objective # NoObjective
              THEN /\ Result.sheet = <<SheetCall("linkNote", StartState.noteId,
                                                 objective.objective_id, "")>>
                   /\ ~Asked("processKnowledge")
                   /\ \A i \in 1..Len(notes) :
                         notes[i].note_id = StartState.noteId
                            => notes[i].objective_id = objective.objective_id
                   /\ stateCell = EmptyCell
              ELSE /\ Asked("processKnowledge")
                   /\ Result.sheet = <<>>
                   /\ Result.reply = processKnowledge(Last(Result.oracle).out)
                   /\ stateCell = EmptyCell

\* C13: a handling that meets a persisted state with an unrecognized tag
\* calls no creation and no deletion of the event store, writes no objective
\* and no note, and, when no store call fails, leaves the state Idle.
C13_UnknownTagReset ==
    (/\ Handled
     /\ last.start.json
     /\ StartState.status \notin KnownStatuses \cup {"null"})
        => /\ \A k \in 1..Len(Result.gcal) :
                 Result.gcal[k].op \notin {"create", "delete"}
           /\ Result.sheet = <<>>
           /\ last.fault = 0 => stateCell = EmptyCell

\* C14: a handling that meets a state cell whose text cannot be parsed
\* raises no exception to its caller and leaves a cell that can be parsed.
C14_CorruptedNotFatal ==
    (Handled /\ ~last.start.json)
        => /\ ~Result.threw
           /\ stateCell.json

\* C15: when the handling of a fresh request (state Idle) ends with the
\* generic failure reply, no state has been written: the persisted state is
\* the one before the message.
C15_FailureKeepsState ==
    (/\ Returned
     /\ last.start = EmptyCell
     /\ Result.reply = GenericFailure)
        => /\ Result.writes = <<>>
           /\ stateCell = last.start

\* The objective title a fresh request refers to ("": none): the title of a
\* plan request that names an objective, or of plan-for-objective.
ReferredTitle ==
    LET intent == understandAndPlan(Result.oracle[1].out)
    IN IF \/ intent.action = "plan_complex_task"
          \/ intent.action = "plan_for_objective" /\ intent.hasParams
       THEN intent.objectiveTitle ELSE ""

\* No objective of the user carries the title.  (A plan request leaves the
\* titles of the objectives as they were.)
Unresolvable(title) ==
    \A i \in 1..Len(objectives) :
        ~(objectives[i].user_id = UserId /\ objectives[i].title = title)

\* C16: a fresh request that refers to an objective title no objective of
\* the user carries writes no state, asks no plan of the oracle and calls
\* the event store not at all; when the lookup of the objective answers, the
\* reply is the clarification that names the title.
C16_UnresolvableTitle ==
    (/\ Handled
     /\ last.start = EmptyCell
     /\ ReferredTitle # ""
     /\ Unresolvable(ReferredTitle))
        => /\ Result.writes = <<>>
           /\ ~Asked("generatePlanForObjective")
           /\ Result.gcal = <<>>
           /\ stateCell = EmptyCell
           /\ ~Result.threw
           /\ last.fault = 0
                 => Result.reply = <<"objective_not_found_create_it", ReferredTitle>>

C16_Witness ==
    /\ Returned
    /\ last.start = EmptyCell
    /\ objectives # <<>>
    /\ ReferredTitle = "T2"
    /\ Unresolvable("T2")
    /\ Result.reply = <<"objective_not_found_create_it", "T2">>

\* The handling confirmed the stored plan: the state was reset and the
\* commit ran.
Committed ==
    /\ Handled
    /\ StartState.status = "waiting_confirmation"
    /\ StartState.hasPlan
    /\ isPureConfirmation(Trim(last.msg))
    /\ Result.writes = <<Null>>

Undated(item) == item.date = 0 /\ item.startTime = 0

IsWeekend(d) == d % 7 \in {0, 6}

\* C17: confirming a plan of k steps none of which has a date or a
\* startTime asks k creations, on days strictly increasing in step order
\* (so distinct), none a Saturday or Sunday, the first no earlier than
\* tomorrow, on whatever day of the week the confirmation happens.
C17_WeekdaySchedule ==
    (/\ Committed
     /\ \A i \in 1..Len(StartState.plan) : Undated(StartState.plan[i]))
        => /\ Len(Result.gcal) = Len(StartState.plan)
           /\ \A k \in 1..Len(Result.gcal) :
                 /\ Result.gcal[k].op = "create"
                 /\ ~IsWeekend(Result.gcal[k].day)
                 /\ Result.gcal[k].day >= Result.clock + 1
                 /\ \A j \in 1..(k - 1) : Result.gcal[j].day < Result.gcal[k].day

\* Confirmed on a Thursday, three steps go to Friday, Monday and Tuesday.
C17_Witness ==
    /\ Committed
    /\ Len(StartState.plan) = 3
    /\ \A i \in 1..3 : Undated(StartState.plan[i])
    /\ Result.clock = 4
    /\ [k \in 1..3 |-> Result.gcal[k].day] = <<5, 8, 9>>

\* The n-th day after today that is no Saturday and no Sunday.
NthWeekdayAfter(today, n) ==
    CHOOSE d \in (today + 1)..(today + 2 * n + 2) :
        /\ ~IsWeekend(d)
        /\ Cardinality({e \in (today + 1)..d : ~IsWeekend(e)}) = n

\* The number of steps without a date among the first k steps of the plan.
UndatedUpTo(plan, k) == Cardinality({i \in 1..k : Undated(plan[i])})

\* C18: during commit a step with a date or a startTime is scheduled at
\* its own value, and a step without is scheduled on the n-th weekday after
\* today, n counting the steps without a date up to it: the steps with a
\* date do not move the cursor, however many they are and wherever they
\* sit.
C18_DatedStepsKeepCursor ==
    Committed =>
        \A k \in 1..Len(Result.gcal) :
            LET item == StartState.plan[k]
            IN Result.gcal[k].day =
                  (IF item.date # 0 THEN item.date
                   ELSE IF item.startTime # 0 THEN item.startTime
                   ELSE NthWeekdayAfter(Result.clock,
                                        UndatedUpTo(StartState.plan, k)))

\* A step with a date, a step with a startTime, then a step without.
C18_Witness ==
    /\ Committed
    /\ Len(Result.gcal) = 3
    /\ StartState.plan[1].date # 0
    /\ StartState.plan[2].startTime # 0
    /\ Undated(StartState.plan[3])
    /\ Result.gcal[1].day = StartState.plan[1].date
    /\ Result.gcal[3].day = Result.clock + 1

\* C19: a commit attempts every step of the plan exactly once, in order,
\* whatever happened to the steps before it, and answers with the number of
\* steps the event store accepted, or with "nothing created" exactly when
\* that number is 0.
C19_EveryStepAttempted ==
    Committed =>
        /\ Len(Result.gcal) = Len(StartState.plan)
        /\ \A k \in 1..Len(Result.gcal) :
              /\ Result.gcal[k].op = "create"
              /\ Result.gcal[k].summary = StartState.plan[k].summary
        /\ LET accepted == {k \in 1..Len(Result.gcal) : Result.gcal[k].ok}
           IN Result.reply =
                 (IF accepted = {} THEN <<"nothing_created">>
                  ELSE <<"created", ToString(Cardinality(accepted))>>)

\* C20: after the commit of a plan for a user whose objectives had no
\* linked event, the linked events of every objective are exactly the
\* events created for the steps that carry its id: none for a step whose
\* creation failed, none for a step without objectiveId.
C20_CreatedStepsLinked ==
    Committed =>
        \A i \in 1..Len(objectives) :
            Range(objectives[i].gcal_event_ids) =
                {Result.gcal[k].id : k \in
                    {n \in 1..Len(Result.gcal) :
                        /\ Result.gcal[n].ok
                        /\ StartState.plan[n].objectiveId =
                              objectives[i].objective_id}}

\* C21: an objective's list of linked events only grows: every event id a
\* commit has linked to the objective (its link call has returned) is in
\* the objective's list, however the commits in flight interleave.
C21_LinkedIdsStay ==
    \A p \in Commits :
        running[p].linked \subseteq Range(objectives[1].gcal_event_ids)

Acknowledgement == <<"image_received_analysing">>

Apology == <<"sorry_image_analysis_trouble">>

\* The handling of an image message that started a background task.
Dispatched == last.kind = "image" /\ last.l.dispatched

\* A background task that has run to its end.
TaskEnded == last.kind = "background"

\* C22: an image message whose image and user were obtained is answered
\* with the acknowledgement while its background task is still to run: the
\* image oracle has not been asked, nothing was pushed, and the text is the
\* acknowledgement whatever the task does later.
C22_AcknowledgedAtOnce ==
    Dispatched =>
        /\ last.l.text = Acknowledgement
        /\ last.l.hm.oracle = <<>>
        /\ last.l.pushCalls = 0
        /\ bgTasks > 0
        /\ last.l.sent \in { <<Acknowledgement>>,
                             <<>>, << <<"sorry_error_handling_message">> >> }

\* The acknowledgement has reached the user and the task is pending.
C22_Witness ==
    /\ Dispatched
    /\ last.l.sent = <<Acknowledgement>>
    /\ bgTasks = 1

\* C23: a background task that has ended has called push exactly once.
C23_PushedOnce == TaskEnded => last.l.pushCalls = 1

\* What a text the push API accepted at the first call must be: the prepared
\* text, or the apology when the preparation threw.
ExpectedPush ==
    IF last.l.hm.threw THEN Apology ELSE last.l.hm.reply

\* The task has ended and has not ended silently: it called push, the text
\* it handed over is no blank text, and a push the API accepted at once
\* carried the result of a preparation that succeeded, the apology of one
\* that failed; the user got no text only when the API refused every call.
PushedAText ==
    /\ TaskEnded
    /\ last.l.pushCalls >= 1
    /\ ~IsBlankText(ExpectedPush)
    /\ (last.l.pushCalls = 1 /\ ~last.l.threw) => last.l.pushed = <<ExpectedPush>>
    /\ last.l.pushed = <<>> => last.l.threw

\* C24: every dispatched background task eventually pushes a text: the
\* result, or the apology when the image oracle, a write of the note or of
\* the state, or the rendering failed.
C24_EventuallyPushes == (bgTasks > 0) ~> PushedAText

\* A task whose state write failed has pushed the apology.
C24_Witness ==
    /\ PushedAText
    /\ last.fault > 0
    /\ last.l.hm.threw
    /\ last.l.pushed = <<Apology>>

\* The plan the image oracle returned to the task that ended, and the plan
\* the task stored.
FlyerPlan == last.l.hm.oracle[1].out.plan

StoredPlan == last.l.hm.writes[1].plan

\* The task ended with a plan of the oracle stored.
PlanStored ==
    /\ TaskEnded
    /\ last.l.hm.oracle[1].out.action = "plan_complex_task"
    /\ last.l.hm.oracle[1].out.hasPlan
    /\ last.l.hm.writes # <<>>

SamePair(e, f) == e.summary = f.summary /\ e.date = f.date

\* The steps post-processing works on: with a summary and a date or a
\* startTime.
Usable(e) == e.summary # "" /\ (e.date # 0 \/ e.startTime # 0)

\* The positions of the usable steps that no usable step with the same
\* summary and date precedes.
FirstOccurrences(plan) ==
    {i \in 1..Len(plan) :
        /\ Usable(plan[i])
        /\ \A j \in 1..(i - 1) : Usable(plan[j]) => ~SamePair(plan[j], plan[i])}

NthOf(K, n) == CHOOSE i \in K : Cardinality({j \in K : j <= i}) = n

\* C25: the stored plan of an image consists of the first occurrences, in
\* their original order, of the usable steps with the same summary and
\* date, and no two of its steps have the same summary and date.
C25_FirstOccurrencesKept ==
    PlanStored =>
        LET K == FirstOccurrences(FlyerPlan)
        IN /\ Len(StoredPlan) = Cardinality(K)
           /\ \A n \in 1..Len(StoredPlan) : StoredPlan[n] = FlyerPlan[NthOf(K, n)]
           /\ \A m, n \in 1..Len(StoredPlan) :
                 m # n => ~SamePair(StoredPlan[m], StoredPlan[n])

\* Of A, B and A again on one date, A and B remain.
C25_Witness ==
    /\ PlanStored
    /\ FlyerPlan = <<PlanEvent("A", 1, 0, 0), PlanEvent("B", 1, 0, 0),
                     PlanEvent("A", 1, 0, 0)>>
    /\ StoredPlan = <<PlanEvent("A", 1, 0, 0), PlanEvent("B", 1, 0, 0)>>

\* C26: when the plan the image oracle returned has a step with a summary
\* and neither date nor startTime, and no store call failed, the task puts
\* the user in waiting_plan_correction and pushes the template, which lists
\* that step with the placeholder for its date.
C26_MissingDateAsksUser ==
    (/\ TaskEnded
     /\ last.fault = 0
     /\ last.l.hm.oracle[1].out.action = "plan_complex_task"
     /\ last.l.hm.oracle[1].out.hasPlan
     /\ \E i \in 1..Len(FlyerPlan) :
           /\ FlyerPlan[i].summary # ""
           /\ FlyerPlan[i].date = 0
           /\ FlyerPlan[i].startTime = 0)
        => /\ ParseStateJson(stateCell).value.status = "waiting_plan_correction"
           /\ Head(last.l.hm.reply) = "please_fill_in_dates"
           /\ \E k \in 1..Len(last.l.hm.reply) :
                 last.l.hm.reply[k] = "fill_in_date"

\* Some oracle call of the handling failed: the call to the model threw, or
\* its output was no JSON.
OracleFailed(op) ==
    \E k \in 1..Len(Result.oracle) :
        Result.oracle[k].op = op /\ Result.oracle[k].out.malformed

OracleOperations ==
    {"understandAndPlan", "generatePlanForObjective", "parseDeletionChoice",
     "modifyPlan", "processKnowledge", "mergePlanWithCorrection"}

\* The texts that tell the user that something went wrong.
ApologyTexts ==
    { <<"sorry_brain_short_circuit">>, <<"sorry_cannot_modify">>,
      <<"sorry_knowledge_failed">>, <<"sorry_merge_failed">>, GenericFailure }

\* C27: a handling in which an oracle operation failed, and no store call
\* did, raises no exception and answers with an apology.
C27_OracleFailureApologized ==
    (/\ Handled
     /\ last.fault = 0
     /\ \E op \in OracleOperations : OracleFailed(op))
        => /\ ~Result.threw
           /\ Result.reply \in ApologyTexts

\* The handling that ended first, and the one that ended last.
EndedFirst == CHOOSE h \in Handlings : running[h].order = 1

EndedLast == CHOOSE h \in Handlings : running[h].order = 2

Reorderings(events) ==
    {[i \in 1..Len(events) |-> events[f[i]]] : f \in Permutations(1..Len(events))}

\* C29: the rendered text of a listing is the text of every reordering of
\* its events.
C29_OrderIrrelevant ==
    last.kind = "listing" =>
        \A reordered \in Reorderings(last.events) :
            formatEventsForLine(reordered) = last.text

\* The calendar dates, in the calendar's time zone, the events fall on.
OwnDates(events) == {events[i].day : i \in 1..Len(events)}

LinesOf(text, type) == SelectSeq(text, LAMBDA line : line.type = type)

\* The lines between the header at position h and the next header.
EntriesUnder(text, h) ==
    LET later == {j \in (h + 1)..Len(text) : text[j].type = "date_header"}
        end == IF later = {} THEN Len(text)
               ELSE (CHOOSE j \in later : \A k \in later : j <= k) - 1
    IN SubSeq(text, h + 1, end)

\* C30: events with a start that all fall on one calendar date are rendered
\* as a flat numbered list without date headers; events on two or more
\* dates are rendered with one header per date, the dates ascending, each
\* header followed by the events of its date and no others.
C30_SectionsByDate ==
    (/\ last.kind = "listing"
     /\ last.events # <<>>
     /\ \A i \in 1..Len(last.events) : last.events[i].kind # "none")
        => LET dates == OwnDates(last.events)
               headers == LinesOf(last.text, "date_header")
               items == LinesOf(last.text, "item")
           IN IF Cardinality(dates) = 1
              THEN /\ headers = <<>>
                   /\ Len(items) = Len(last.events)
                   /\ \A i \in 1..Len(items) : items[i].index = i
              ELSE /\ [k \in 1..Len(headers) |-> headers[k].day] = SortedDates(dates)
                   /\ \A h \in 1..Len(last.text) :
                         last.text[h].type = "date_header" =>
                            Len(EntriesUnder(last.text, h)) =
                               Cardinality({i \in 1..Len(last.events) :
                                               last.events[i].day = last.text[h].day})

\* C31: the status lookup puts each event in at most one list: a cancelled
\* event in neither, an event that starts before now in the overdue list
\* only, one that starts from now to now + 7 days in the upcoming list only,
\* one that starts later in neither.
C31_StatusClasses ==
    last.kind = "status" =>
        \A i \in 1..Len(last.responses) :
            LET e == last.responses[i]
                upcoming == i \in Range(last.lists.upcomingEvents)
                overdue == i \in Range(last.lists.overdueEvents)
            IN /\ ~(upcoming /\ overdue)
               /\ e.ok /\ e.status = "cancelled" => ~upcoming /\ ~overdue
               /\ (e.ok /\ e.status # "cancelled" /\ e.hasStart) =>
                     /\ overdue <=> e.start < last.now
                     /\ upcoming <=> (last.now <= e.start
                                        /\ e.start <= last.now + 7)

\* An overdue event, an event that starts exactly in a week, a cancelled one.
C31_Witness ==
    /\ last.kind = "status"
    /\ Len(last.responses) = 3
    /\ last.responses[1].start = Now - 1 /\ last.responses[1].status = "confirmed"
    /\ last.responses[2].start = Now + 7 /\ last.responses[2].status = "confirmed"
    /\ last.responses[3].status = "cancelled" /\ last.responses[3].hasStart
    /\ last.lists = [upcomingEvents |-> <<2>>, overdueEvents |-> <<1>>]


\* The intent of a fresh request, as understandAndPlan hands it over.
FreshIntent == understandAndPlan(Result.oracle[1].out)

\* A fresh request of a user in Idle that is classified create_event.
CreateEventRequest ==
    /\ Handled
    /\ StartState.status = "null"
    /\ last.start = EmptyCell
    /\ Len(Result.oracle) = 1
    /\ FreshIntent.action = "create_event"

HasSummaryAndStart(intent) ==
    intent.hasParams /\ intent.summary # "" /\ intent.startTime # 0

\* C32 as stated: a fresh request in Idle classified create_event with a
\* summary and a startTime issues exactly one creation to the event store
\* and writes no state; without summary or startTime it issues none.
C32_OneCreateCall ==
    CreateEventRequest =>
        /\ Result.writes = <<>> /\ stateCell = EmptyCell
        /\ Len(Result.gcal) = (IF HasSummaryAndStart(FreshIntent) THEN 1 ELSE 0)
        /\ \A k \in 1..Len(Result.gcal) : Result.gcal[k].op = "create"

\* C32 as the code has it: such a request never writes a state and issues
\* at most one call to the event store, a creation; exactly one when it has
\* a summary and a startTime that is a date or comes with an endTime; none
\* without summary or startTime, and none with a startTime that is no date
\* and no endTime, where the reply is the apology for a failed creation.
C32_OneCreateCallWhenEndKnown ==
    CreateEventRequest =>
        /\ Result.writes = <<>> /\ stateCell = EmptyCell
        /\ ~Result.threw
        /\ Len(Result.gcal) =
              (IF /\ HasSummaryAndStart(FreshIntent)
                  /\ (FreshIntent.startTime # InvalidDate
                        \/ FreshIntent.endTime # 0)
               THEN 1 ELSE 0)
        /\ \A k \in 1..Len(Result.gcal) : Result.gcal[k].op = "create"
        /\ (HasSummaryAndStart(FreshIntent) /\ Result.gcal = <<>>)
              => Result.reply = <<"sorry_create_failed">>

\* A request with a startTime that is no date and an endTime: the creation
\* is asked of the event store, which rejects it.
C32_Witness ==
    /\ CreateEventRequest
    /\ FreshIntent.startTime = InvalidDate /\ FreshIntent.endTime # 0
    /\ Len(Result.gcal) = 1 /\ ~Result.gcal[1].ok
    /\ Result.reply = <<"sorry_create_failed">>


\* The operations the oracle is asked by the branch of a waiting state.
BranchOperations(status) ==
    CASE status = "waiting_confirmation" -> {"modifyPlan"}
      [] status = "waiting_delete_confirmation" -> {"parseDeletionChoice"}
      [] status = "waiting_plan_correction" -> {"mergePlanWithCorrection"}
      [] status = "waiting_knowledge_action" ->
            {"understandAndPlan", "processKnowledge"}
      [] OTHER -> {}

\* The calls the branch of a waiting state asks of the event store.
BranchStoreCalls(status) ==
    CASE status = "waiting_confirmation" -> {"create"}
      [] status = "waiting_delete_confirmation" -> {"delete"}
      [] OTHER -> {}

\* C33: in a known waiting state a text message is handled by the branch
\* of that state only; the fresh-request dispatch does not run: no listing,
\* no single-event creation, no search for a deletion, no creation of an
\* objective, no new proposal of a plan from a fresh classification.
C33_BranchOnly ==
    (Handled /\ StartState.status \in KnownStatuses) =>
        /\ \A k \in 1..Len(Result.oracle) :
              Result.oracle[k].op \in BranchOperations(StartState.status)
        /\ Len(Result.oracle) <=
              (IF StartState.status = "waiting_knowledge_action" THEN 2 ELSE 1)
        /\ \A k \in 1..Len(Result.gcal) :
              Result.gcal[k].op \in BranchStoreCalls(StartState.status)
        /\ Result.gcal # <<>> /\ StartState.status = "waiting_confirmation"
              => isPureConfirmation(Trim(last.msg))
        /\ \A k \in 1..Len(Result.sheet) :
              Result.sheet[k].op \in {"linkEvent", "linkNote"}
        /\ Len(Result.writes) <= 1
        /\ \A k \in 1..Len(Result.writes) :
              Result.writes[k].status = "waiting_confirmation"
                 => StartState.status \in {"waiting_confirmation",
                                           "waiting_plan_correction"}
        /\ \A k \in 1..Len(Result.writes) :
              Result.writes[k].status \in {"null", "waiting_confirmation"}

\* The choice of a deletion was handled: events were deleted, the state reset.
C33_Witness ==
    /\ Returned
    /\ StartState.status = "waiting_delete_confirmation"
    /\ Len(Result.gcal) >= 1
    /\ Result.writes = <<Null>>
    /\ Len(Result.oracle) = 1


\* The handlings that committed the plan they found waiting for
\* confirmation: they asked the event store to create its steps.
Committers ==
    {h \in Handlings :
        /\ running[h].pc = "done" /\ running[h].kind = "text"
        /\ ParseStateJson(running[h].user).value.status = "waiting_confirmation"
        /\ \E k \in 1..Len(running[h].hm.gcal) :
              running[h].hm.gcal[k].op = "create"}

\* C34: a plan stored in waiting_confirmation is committed at most once,
\* in every interleaving of the handlings of its user, two confirmations
\* handled concurrently included.
C34_CommittedAtMostOnce == Cardinality(Committers) <= 1


\* The handlings findOrCreateUser has returned to.
Looked == {h \in Deliveries : running[h].pc \in {"found", "done"}}

\* The plan a row's state holds, if any, was proposed to the row's user.
OwnState(row) ==
    LET st == ParseStateJson(row.state_json).value
    IN st.status = "waiting_confirmation" => st.plan = OwnPlan(row.line_user_id)

\* C35: a handling writes only the state cell of the user who sent the
\* message: in every interleaving of messages of users not seen before, the
\* row number findOrCreateUser returned for a sender is the number of the
\* row that holds the sender, and no row holds a state written for another
\* user.
C35_OwnRow ==
    /\ \A h \in Looked :
          users[running[h].rowNumber - 1].line_user_id = running[h].sender
    /\ \A k \in 1..Len(users) : OwnState(users[k])

\* C36: the user store holds exactly one row per external id, whatever the
\* sequence or interleaving of the messages of one id.
C36_OneRowPerId ==
    \A u \in LineUserIds :
        /\ Cardinality({k \in 1..Len(users) : users[k].line_user_id = u}) <= 1
        /\ (\E h \in Looked : running[h].sender = u)
              => \E k \in 1..Len(users) : users[k].line_user_id = u


\* C37: an image whose plan has no step left after post-processing never
\* puts the user in a waiting state: the task pushes that no complete
\* activity could be extracted and writes no state, in particular no
\* waiting_confirmation with an empty plan.
C37_EmptyPlanNotStored ==
    (/\ TaskEnded
     /\ last.l.hm.oracle[1].out.action = "plan_complex_task"
     /\ last.l.hm.oracle[1].out.hasPlan
     /\ FirstOccurrences(FlyerPlan) = {})
        => /\ last.l.hm.writes = <<>>
           /\ stateCell = last.start
           /\ ~last.l.hm.threw => last.l.hm.reply = <<"no_complete_activity">>


\* The user answered the question which candidates to delete, and the
\* parsing of the answer failed.
ChoiceUnparsed ==
    /\ Handled
    /\ StartState.status = "waiting_delete_confirmation"
    /\ Result.oracle[1].out.malformed

\* C38: when the parsing of the deletion choice fails, the selection is
\* "none": no deletion is asked of the event store, no candidate leaves it,
\* and the handling that returns has reset the state to Idle and answers
\* that the deletion is cancelled.
C38_UnparsedChoiceDeletesNothing ==
    ChoiceUnparsed =>
        /\ parseDeletionChoice(Result.oracle[1].out).selection = "none"
        /\ Result.gcal = <<>>
        /\ Returned => /\ Result.writes = <<Null>>
                       /\ stateCell = EmptyCell
                       /\ Result.reply = <<"delete_cancelled">>

\* Two candidates, an answer the oracle could not parse, both still stored.
C38_Witness ==
    /\ ChoiceUnparsed
    /\ Returned
    /\ Len(StartState.events) = 2
    /\ \A i \in 1..2 : \E e \in calendar : e.id = StartState.events[i].id
    /\ stateCell = EmptyCell


\* The text of the event handled is a special command.
CommandHandled == last.kind = "text" /\ IsCommand(last.msg)

\* C39: a special command ("/help", "bang zhu", "shuo ming", "/status",
\* "zhuang tai") is answered with no call of the user store, of the oracle
\* or of the event store, and the persisted state, a pending waiting state
\* included, is the same before and after.
C39_CommandsTouchNothing ==
    CommandHandled =>
        /\ ~last.l.hmCalled
        /\ last.l.hm = R0
        /\ stateCell = last.start
        /\ last.l.text \in { <<"help_text">>, <<"status_text">> }
        /\ \A userFails \in BOOLEAN :
              handleTextMessage(last.start, Env,
                  Inputs(last.msg, NoOutput, NoOutput, 0, {}, {}, userFails, 0)).text
                 = last.l.text

\* The status command while a plan waits for confirmation.
C39_Witness ==
    /\ CommandHandled
    /\ Trim(last.msg) \in StatusCommands
    /\ last.l.sent = << <<"status_text">> >>
    /\ ParseStateJson(last.start).value.status = "waiting_confirmation"
    /\ stateCell = last.start


\* C40: the reply slot of an event is used at most once: handling one event
\* calls the reply API on the event's reply token at most once, also when
\* the handler throws and when the first reply call itself fails.
C40_ReplySlotOnce == last.l.replyCalls <= 1

=============================================================================
